---------------------------- MODULE Spec2Model ----------------------------
(***************************************************************************)
(* tick-cache: a bounded key/value cache (TtlWheelCache) built from an     *)
(* entry arena (EntryStore), an intrusive LRU list (LruList) and a hashed  *)
(* timer wheel with an overflow list (TimerWheel).                         *)
(*                                                                         *)
(* The cache object is a record c with the fields store, lru, wheel and    *)
(* keyIndex (the members of TtlWheelCache) and out (what the running call  *)
(* has produced so far: the error it threw, the onDispose calls it made).  *)
(* Every method is an operator from the object before the call to the      *)
(* object after it; a thrown error is c.out.err # NoError, and every step  *)
(* after the throw is skipped as in the code: an operator that models a    *)
(* step which may follow a throwing one returns a failed object as it got  *)
(* it.  JavaScript is single threaded and no method awaits, so each public *)
(* call is one action.                                                     *)
(*                                                                         *)
(* Ticks and milliseconds stay far below 2^32 in every run, so the         *)
(* Uint32Array stores of expiresTick and ttlMs (and expTick >>> 0) keep    *)
(* the value written; TTLs are whole milliseconds.                         *)
(***************************************************************************)
EXTENDS Integers, Sequences, FiniteSets, TLC

\* ------------------------------------------------------------------ bounds
\* maxEntries option of the cache under test
MaxEntries == 2
\* maxEntries option of the caches whose LRU list is under test
LruEntries == 3
\* entries of the store a timer wheel is tested on by itself
WheelEntries == 4
\* log2 of the wheelSize option (wheelSize must be a power of two >= 2)
WheelBits == 1
\* the largest budgetPerTick option of a cache under test
MaxBudget == 2
\* tickMs option
TickMs == 2
\* the time source is advanced no further than this tick
MaxTick == 1

\* ------------------------------------------------------------- constants
NIL == -1
BUCKET_NONE == -1
BUCKET_OVERFLOW == -2
\* pendingTargetTick = null
NoPending == -1

Undefined == "undefined"
NoError == "none"

KeyNames == <<"a", "b", "c", "d", "e">>

\* one key more than the cache holds
Keys == {KeyNames[i] : i \in 1 .. MaxEntries + 1}
Values == {"v1", "v2"}
\* the keys the callers of the caches with LruEntries entries use
LruKeys == {KeyNames[i] : i \in 1 .. LruEntries}
\* the slots of the largest arena of the model
Slots ==
    IF MaxEntries >= LruEntries /\ MaxEntries >= WheelEntries THEN MaxEntries
    ELSE IF LruEntries >= WheelEntries THEN LruEntries
    ELSE WheelEntries
Ids == 0 .. (Slots - 1)

RECURSIVE Pow2(_)
Pow2(n) == IF n = 0 THEN 1 ELSE 2 * Pow2(n - 1)

WheelSize == Pow2(WheelBits)
HorizonTicks == WheelSize
Buckets == 0 .. (WheelSize - 1)

Min(a, b) == IF a < b THEN a ELSE b
Max(a, b) == IF a > b THEN a ELSE b

\* ttlMs arguments of set that pass its validity test: shorter than a tick,
\* one tick, beyond the wheel's horizon
SubTickTtl == [finite |-> TRUE, ms |-> TickMs - 1]
OneTickTtl == [finite |-> TRUE, ms |-> TickMs]
OverflowTtl == [finite |-> TRUE, ms |-> (WheelSize + 1) * TickMs]
\* a TTL of as many ticks as the wheel has buckets
WrapTtl == [finite |-> TRUE, ms |-> WheelSize * TickMs]
ValidTtls == {SubTickTtl, OneTickTtl, WrapTtl, OverflowTtl}

\* ttlMs arguments of set that fail it: not finite (NaN, Infinity), zero
InvalidTtls == {[finite |-> FALSE, ms |-> 0], [finite |-> TRUE, ms |-> 0]}

TtlInputs == ValidTtls \cup InvalidTtls

\* ------------------------------------------------------------ EntryStore
InitialCap(maxEntries) == Min(1024, maxEntries)

NewStore(maxEntries) ==
    [ cap           |-> InitialCap(maxEntries),
      sizeAllocated |-> 0,
      freeList      |-> << >>,
      keyRef        |-> [i \in Ids |-> Undefined],
      valRef        |-> [i \in Ids |-> Undefined],
      expiresTick   |-> [i \in Ids |-> 0],
      ttlMs         |-> [i \in Ids |-> 0],
      wheelNext     |-> [i \in Ids |-> NIL],
      wheelPrev     |-> [i \in Ids |-> NIL],
      lruNext       |-> [i \in Ids |-> NIL],
      lruPrev       |-> [i \in Ids |-> NIL],
      wheelBucket   |-> [i \in Ids |-> BUCKET_NONE] ]

Throw(c, e) == [c EXCEPT !.out.err = e]
Ok(c) == c.out.err = NoError

ResetSlot(c, id) ==
    [c EXCEPT !.store.keyRef[id] = Undefined,
              !.store.valRef[id] = Undefined,
              !.store.expiresTick[id] = 0,
              !.store.ttlMs[id] = 0,
              !.store.wheelNext[id] = NIL,
              !.store.wheelPrev[id] = NIL,
              !.store.lruNext[id] = NIL,
              !.store.lruPrev[id] = NIL,
              !.store.wheelBucket[id] = BUCKET_NONE]

RECURSIVE GrowCap(_, _, _)
GrowCap(newCap, required, maxEntries) ==
    IF newCap >= required THEN newCap
    ELSE LET next == Min(newCap * 2, maxEntries)
         IN IF next = newCap THEN NIL ELSE GrowCap(next, required, maxEntries)

EnsureCapacity(c, required) ==
    IF required <= c.store.cap THEN c
    ELSE LET newCap == GrowCap(c.store.cap, required, c.opts.maxEntries)
         IN IF newCap = NIL THEN Throw(c, "CapacityExhausted")
            ELSE [c EXCEPT !.store.cap = newCap]

\* allocId reusing the id that has been free the longest
AllocIdFifo(c) ==
    IF ~Ok(c) THEN [c |-> c, id |-> NIL]
    ELSE IF Len(c.store.freeList) > 0
    THEN [c  |-> ResetSlot([c EXCEPT !.store.freeList = Tail(@)], c.store.freeList[1]),
          id |-> c.store.freeList[1]]
    ELSE IF c.store.sizeAllocated >= c.opts.maxEntries
    THEN [c |-> c, id |-> NIL]
    ELSE [c |-> ResetSlot([c EXCEPT !.store.sizeAllocated = @ + 1], c.store.sizeAllocated),
          id |-> c.store.sizeAllocated]

\* allocId: the object after the call and the id returned
AllocId(c) ==
    IF ~Ok(c) THEN [c |-> c, id |-> NIL]
    ELSE IF Len(c.store.freeList) > 0
    THEN LET n == Len(c.store.freeList)
             reused == c.store.freeList[n]
         IN [c  |-> ResetSlot([c EXCEPT !.store.freeList = SubSeq(@, 1, n - 1)], reused),
             id |-> reused]
    ELSE IF c.store.sizeAllocated >= c.opts.maxEntries
    THEN [c |-> c, id |-> NIL]
    ELSE LET id == c.store.sizeAllocated
             c1 == [c EXCEPT !.store.sizeAllocated = @ + 1]
             c2 == IF id >= c1.store.cap THEN EnsureCapacity(c1, id + 1) ELSE c1
         IN IF Ok(c2) THEN [c |-> ResetSlot(c2, id), id |-> id]
            ELSE [c |-> c2, id |-> NIL]

SetEntry(c, id, key, value) ==
    IF ~Ok(c) THEN c
    ELSE IF id < 0 \/ id >= c.store.cap THEN Throw(c, "InvalidId")
    ELSE [c EXCEPT !.store.keyRef[id] = key, !.store.valRef[id] = value]

\* freeId without the test of the key column
FreeIdUnchecked(c, id) ==
    IF id < 0 \/ id >= c.store.cap THEN Throw(c, "InvalidId")
    ELSE [ResetSlot(c, id) EXCEPT !.store.freeList = Append(@, id)]

\* freeId without the push on the free list
FreeIdLeaking(c, id) ==
    IF id < 0 \/ id >= c.store.cap THEN Throw(c, "InvalidId")
    ELSE IF c.store.keyRef[id] = Undefined THEN Throw(c, "DoubleFree")
    ELSE ResetSlot(c, id)

FreeId(c, id) ==
    IF id < 0 \/ id >= c.store.cap THEN Throw(c, "InvalidId")
    ELSE IF c.store.keyRef[id] = Undefined THEN Throw(c, "DoubleFree")
    ELSE LET c1 == ResetSlot(c, id)
         IN [c1 EXCEPT !.store.freeList = Append(@, id)]

\* --------------------------------------------------------------- LruList
NewLru == [head |-> NIL, tail |-> NIL]

LinkHead(c, id) ==
    LET oldHead == c.lru.head
        c1 == [c EXCEPT !.store.lruNext[id] = oldHead, !.store.lruPrev[id] = NIL]
        c2 == IF oldHead # NIL
              THEN [c1 EXCEPT !.store.lruPrev[oldHead] = id]
              ELSE [c1 EXCEPT !.lru.tail = id]
    IN IF ~Ok(c) THEN c ELSE [c2 EXCEPT !.lru.head = id]

LruUnlink(c, id) ==
    LET prev == c.store.lruPrev[id]
        next == c.store.lruNext[id]
        c1 == IF prev # NIL
              THEN [c EXCEPT !.store.lruNext[prev] = next]
              ELSE [c EXCEPT !.lru.head = next]
        c2 == IF next # NIL
              THEN [c1 EXCEPT !.store.lruPrev[next] = prev]
              ELSE [c1 EXCEPT !.lru.tail = prev]
    IN [c2 EXCEPT !.store.lruNext[id] = NIL, !.store.lruPrev[id] = NIL]

Touch(c, id) ==
    IF ~Ok(c) \/ c.lru.head = id THEN c
    ELSE LinkHead(LruUnlink(c, id), id)

GetTail(c) == c.lru.tail

\* ------------------------------------------------------------ TimerWheel
NewWheel(tick) ==
    [ wheelHeads          |-> [b \in Buckets |-> NIL],
      overflowHead        |-> NIL,
      overflowCountApprox |-> 0,
      nowTick             |-> tick,
      pendingTargetTick   |-> NoPending ]

\* tick & wheelMask, wheelMask = wheelSize - 1, wheelSize a power of two
BucketOf(tick) == tick % WheelSize

\* linkWheelHead without the back pointer of the old head
LinkWheelHeadOneWay(c, id, bucket) ==
    [c EXCEPT !.store.wheelBucket[id] = bucket,
              !.store.wheelPrev[id] = NIL,
              !.store.wheelNext[id] = c.wheel.wheelHeads[bucket],
              !.wheel.wheelHeads[bucket] = id]

\* linkWheelHead that puts id behind the head of a bucket that has one
LinkWheelBehindHead(c, id, bucket) ==
    LET head == c.wheel.wheelHeads[bucket]
    IN IF head = NIL
       THEN [c EXCEPT !.store.wheelBucket[id] = bucket,
                      !.store.wheelPrev[id] = NIL,
                      !.store.wheelNext[id] = NIL,
                      !.wheel.wheelHeads[bucket] = id]
       ELSE IF c.store.wheelNext[head] = NIL
       THEN [c EXCEPT !.store.wheelBucket[id] = bucket,
                      !.store.wheelPrev[id] = head,
                      !.store.wheelNext[id] = NIL,
                      !.store.wheelNext[head] = id]
       ELSE [c EXCEPT !.store.wheelBucket[id] = bucket,
                      !.store.wheelPrev[id] = head,
                      !.store.wheelNext[id] = c.store.wheelNext[head],
                      !.store.wheelPrev[c.store.wheelNext[head]] = id,
                      !.store.wheelNext[head] = id]

LinkWheelHead(c, id, bucket) ==
    LET head == c.wheel.wheelHeads[bucket]
        c1 == [c EXCEPT !.store.wheelBucket[id] = bucket,
                        !.store.wheelPrev[id] = NIL,
                        !.store.wheelNext[id] = head]
        c2 == IF head # NIL THEN [c1 EXCEPT !.store.wheelPrev[head] = id] ELSE c1
    IN [c2 EXCEPT !.wheel.wheelHeads[bucket] = id]

\* unlinkWheel that leaves the back pointer of the next slot as it was
UnlinkWheelOneWay(c, id, bucket) ==
    LET prev == c.store.wheelPrev[id]
        next == c.store.wheelNext[id]
        c1 == IF prev # NIL
              THEN [c EXCEPT !.store.wheelNext[prev] = next]
              ELSE [c EXCEPT !.wheel.wheelHeads[bucket] = next]
    IN [c1 EXCEPT !.store.wheelPrev[id] = NIL,
                  !.store.wheelNext[id] = NIL,
                  !.store.wheelBucket[id] = BUCKET_NONE]

UnlinkWheel(c, id, bucket) ==
    LET prev == c.store.wheelPrev[id]
        next == c.store.wheelNext[id]
        c1 == IF prev # NIL
              THEN [c EXCEPT !.store.wheelNext[prev] = next]
              ELSE [c EXCEPT !.wheel.wheelHeads[bucket] = next]
        c2 == IF next # NIL THEN [c1 EXCEPT !.store.wheelPrev[next] = prev] ELSE c1
    IN [c2 EXCEPT !.store.wheelPrev[id] = NIL,
                  !.store.wheelNext[id] = NIL,
                  !.store.wheelBucket[id] = BUCKET_NONE]

LinkOverflow(c, id) ==
    LET head == c.wheel.overflowHead
        c1 == [c EXCEPT !.store.wheelBucket[id] = BUCKET_OVERFLOW,
                        !.store.wheelPrev[id] = NIL,
                        !.store.wheelNext[id] = head]
        c2 == IF head # NIL THEN [c1 EXCEPT !.store.wheelPrev[head] = id] ELSE c1
    IN [c2 EXCEPT !.wheel.overflowHead = id,
                  !.wheel.overflowCountApprox = @ + 1]

UnlinkOverflow(c, id) ==
    LET prev == c.store.wheelPrev[id]
        next == c.store.wheelNext[id]
        c1 == IF prev # NIL
              THEN [c EXCEPT !.store.wheelNext[prev] = next]
              ELSE [c EXCEPT !.wheel.overflowHead = next]
        c2 == IF next # NIL THEN [c1 EXCEPT !.store.wheelPrev[next] = prev] ELSE c1
    IN [c2 EXCEPT !.store.wheelPrev[id] = NIL,
                  !.store.wheelNext[id] = NIL,
                  !.store.wheelBucket[id] = BUCKET_NONE,
                  !.wheel.overflowCountApprox = IF @ > 0 THEN @ - 1 ELSE @]

WheelUnlink(c, id) ==
    LET b == c.store.wheelBucket[id]
    IN IF b = BUCKET_NONE THEN c
       ELSE IF b = BUCKET_OVERFLOW THEN UnlinkOverflow(c, id)
       ELSE UnlinkWheel(c, id, b)

\* schedule that sends a delta of exactly horizonTicks to the overflow list
ScheduleAtHorizon(c, id, expTick) ==
    IF ~Ok(c) THEN c
    ELSE IF expTick < 0 THEN Throw(c, "InvalidExpTick")
    ELSE IF expTick <= c.wheel.nowTick THEN Throw(c, "ScheduleInPast")
    ELSE LET c2 == [WheelUnlink(c, id) EXCEPT !.store.expiresTick[id] = expTick]
         IN IF expTick - c.wheel.nowTick >= HorizonTicks
            THEN LinkOverflow(c2, id)
            ELSE LinkWheelHead(c2, id, BucketOf(expTick))

\* schedule that measures the distance from the tick of the time source,
\* not from the wheel's nowTick
ScheduleFromClock(c, id, expTick) ==
    IF ~Ok(c) THEN c
    ELSE IF expTick < 0 THEN Throw(c, "InvalidExpTick")
    ELSE IF expTick <= c.wheel.nowTick THEN Throw(c, "ScheduleInPast")
    ELSE LET c2 == [WheelUnlink(c, id) EXCEPT !.store.expiresTick[id] = expTick]
         IN IF expTick - (c.timeMs \div TickMs) > HorizonTicks
            THEN LinkOverflow(c2, id)
            ELSE LinkWheelHead(c2, id, BucketOf(expTick))

\* schedule that picks the bucket from the distance, not from expTick
ScheduleByDelta(c, id, expTick) ==
    IF ~Ok(c) THEN c
    ELSE IF expTick < 0 THEN Throw(c, "InvalidExpTick")
    ELSE IF expTick <= c.wheel.nowTick THEN Throw(c, "ScheduleInPast")
    ELSE LET c2 == [WheelUnlink(c, id) EXCEPT !.store.expiresTick[id] = expTick]
         IN IF expTick - c.wheel.nowTick > HorizonTicks
            THEN LinkOverflow(c2, id)
            ELSE LinkWheelHead(c2, id, BucketOf(expTick - c.wheel.nowTick))

\* schedule that unlinks id before it validates expTick
ScheduleUnlinkingFirst(c, id, expTick) ==
    IF ~Ok(c) THEN c
    ELSE IF expTick < 0 THEN Throw(WheelUnlink(c, id), "InvalidExpTick")
    ELSE IF expTick <= c.wheel.nowTick THEN Throw(WheelUnlink(c, id), "ScheduleInPast")
    ELSE LET c2 == [WheelUnlink(c, id) EXCEPT !.store.expiresTick[id] = expTick]
         IN IF expTick - c.wheel.nowTick > HorizonTicks
            THEN LinkOverflow(c2, id)
            ELSE LinkWheelHead(c2, id, BucketOf(expTick))

Schedule(c, id, expTick) ==
    IF ~Ok(c) THEN c
    ELSE IF expTick < 0 THEN Throw(c, "InvalidExpTick")
    ELSE IF expTick <= c.wheel.nowTick THEN Throw(c, "ScheduleInPast")
    ELSE LET c2 == [WheelUnlink(c, id) EXCEPT !.store.expiresTick[id] = expTick]
             delta == expTick - c.wheel.nowTick
         IN IF delta > HorizonTicks
            THEN LinkOverflow(c2, id)
            ELSE LinkWheelHead(c2, id, BucketOf(expTick))

\* ---------------------------------------------- TtlWheelCache, private part
\* this.ticker.nowTick(): floor(nowMs / tickMs) of the time source
TickerNowTick(c) == c.timeMs \div TickMs

\* keyIndex is a Map: a sequence of [key, id] in insertion order
IndexKeys(idx) == {idx[i].key : i \in 1 .. Len(idx)}

\* keyIndex.get(key); NIL stands for undefined (no id ever stored is NIL)
IndexGet(c, key) ==
    IF \E i \in 1 .. Len(c.keyIndex) : c.keyIndex[i].key = key
    THEN c.keyIndex[CHOOSE i \in 1 .. Len(c.keyIndex) : c.keyIndex[i].key = key].id
    ELSE NIL

IndexDelete(c, key) ==
    [c EXCEPT !.keyIndex = SelectSeq(@, LAMBDA e : e.key # key)]

\* keyIndex.set(key, id): an existing key keeps its place
IndexSet(c, key, id) ==
    IF ~Ok(c) THEN c
    ELSE IF key \in IndexKeys(c.keyIndex)
    THEN [c EXCEPT !.keyIndex =
             [i \in 1 .. Len(@) |-> IF @[i].key = key THEN [key |-> key, id |-> id] ELSE @[i]]]
    ELSE [c EXCEPT !.keyIndex = Append(@, [key |-> key, id |-> id])]

\* if (this.onDispose && key !== undefined && value !== undefined)
\* this.onDispose(key, value, reason): one call of the callback; live
\* records whether the slot still held its key when the callback ran
OnDispose(c, key, value, reason, id) ==
    IF ~Ok(c) \/ key = Undefined \/ value = Undefined THEN c
    ELSE [c EXCEPT !.out.disposed =
             Append(@, [key |-> key, value |-> value, reason |-> reason, id |-> id,
                        live |-> c.store.keyRef[id] # Undefined,
                        free |-> \E i \in 1 .. Len(c.store.freeList) :
                                    c.store.freeList[i] = id])]

\* removeEntry without this.wheel.unlink(id)
RemoveEntryStillScheduled(c, id, reason) ==
    OnDispose(FreeId(LruUnlink(IF c.store.keyRef[id] # Undefined
                               THEN IndexDelete(c, c.store.keyRef[id]) ELSE c, id), id),
              c.store.keyRef[id], c.store.valRef[id], reason, id)

\* removeEntry without this.keyIndex.delete(key)
RemoveEntryKeepingKey(c, id, reason) ==
    OnDispose(FreeId(LruUnlink(WheelUnlink(c, id), id), id),
              c.store.keyRef[id], c.store.valRef[id], reason, id)

RemoveEntry(c, id, reason) ==
    LET key == c.store.keyRef[id]
        value == c.store.valRef[id]
        c1 == IF key # Undefined THEN IndexDelete(c, key) ELSE c
        c2 == WheelUnlink(c1, id)
        c3 == LruUnlink(c2, id)
        c4 == FreeId(c3, id)
    IN OnDispose(c4, key, value, reason, id)

OnExpireEntry(c, id, reason) == RemoveEntry(c, id, reason)

\* the callback advanceWheel hands to the wheel; the wheel's call is logged
\* with the tick it was made at and the list the slot came from
Emitted(c, id, exp, phase) ==
    [c EXCEPT !.out.expired =
        Append(@, [id |-> id, exp |-> exp, nowTick |-> c.wheel.nowTick,
                   phase |-> phase,
                   bucket |-> c.store.wheelBucket[id],
                   due |-> c.store.expiresTick[id] <= c.wheel.nowTick,
                   live |-> c.store.keyRef[id] # Undefined])]

\* onExpire(id): the cache's callback removes the entry; the callback of
\* the wheel's own tests, (id) => expired.push(id), only records the id
OnExpire(c, id, exp, phase) ==
    IF c.out.onExpire = "push"
    THEN Emitted(c, id, exp, phase)
    ELSE OnExpireEntry(Emitted(c, id, exp, phase), id, "ttl")

\* ------------------------------------------------- TimerWheel, advancement
\* one more entry moved out of the overflow list or visited in a bucket
Worked(c) == [c EXCEPT !.out.work = @ + 1]

\* the loop of drainOverflowWithinHorizon charging the budget for every
\* entry it looks at, moved or not
RECURSIVE DrainLoopCountingAll(_, _, _, _)
DrainLoopCountingAll(c, cursor, processedSoFar, processed) ==
    IF ~Ok(c) \/ cursor = NIL \/ ~((processedSoFar + processed) < c.opts.budgetPerTick)
    THEN [c |-> c, processed |-> processed]
    ELSE LET id == cursor
             nextCursor == c.store.wheelNext[id]
             exp == c.store.expiresTick[id]
         IN IF exp - c.wheel.nowTick <= HorizonTicks
            THEN DrainLoopCountingAll(
                     Worked(IF exp <= c.wheel.nowTick
                            THEN OnExpire(UnlinkOverflow(c, id), id, exp, "overflow")
                            ELSE LinkWheelHead(UnlinkOverflow(c, id), id, BucketOf(exp))),
                     nextCursor, processedSoFar, processed + 1)
            ELSE DrainLoopCountingAll(Worked(c), nextCursor, processedSoFar, processed + 1)

\* the loop of drainOverflowWithinHorizon from cursor on
RECURSIVE DrainLoop(_, _, _, _)
DrainLoop(c, cursor, processedSoFar, processed) ==
    IF ~Ok(c) \/ cursor = NIL \/ ~((processedSoFar + processed) < c.opts.budgetPerTick)
    THEN [c |-> c, processed |-> processed]
    ELSE LET id == cursor
             nextCursor == c.store.wheelNext[id]
             exp == c.store.expiresTick[id]
             delta == exp - c.wheel.nowTick
         IN IF delta <= HorizonTicks
            THEN LET c1 == UnlinkOverflow(c, id)
                     c2 == IF exp <= c1.wheel.nowTick
                           THEN OnExpire(c1, id, exp, "overflow")
                           ELSE LinkWheelHead(c1, id, BucketOf(exp))
                 IN DrainLoop(Worked(c2), nextCursor, processedSoFar, processed + 1)
            ELSE DrainLoop(c, nextCursor, processedSoFar, processed)

DrainOverflowWithinHorizon(c, processedSoFar) ==
    DrainLoop(c, c.wheel.overflowHead, processedSoFar, 0)

\* the loop of processBucket calling onExpire on the slot still linked
RECURSIVE BucketLoopCallbackFirst(_, _, _, _, _)
BucketLoopCallbackFirst(c, bucket, cursor, processedSoFar, processed) ==
    IF ~Ok(c) \/ cursor = NIL \/ ~((processedSoFar + processed) < c.opts.budgetPerTick)
    THEN [c |-> c, processed |-> processed]
    ELSE LET id == cursor
             nextCursor == c.store.wheelNext[id]
             exp == c.store.expiresTick[id]
             c1 == IF exp <= c.wheel.nowTick
                   THEN OnExpire(c, id, exp, "bucket")
                   ELSE LET correctBucket == BucketOf(exp)
                        IN IF correctBucket # bucket
                           THEN LinkWheelHead(UnlinkWheel(c, id, bucket), id, correctBucket)
                           ELSE c
         IN BucketLoopCallbackFirst(Worked(c1), bucket, nextCursor, processedSoFar, processed + 1)

\* processBucket that expires a slot in the tick step of its expiry tick only
RECURSIVE BucketLoopExactTick(_, _, _, _, _)
BucketLoopExactTick(c, bucket, cursor, processedSoFar, processed) ==
    IF ~Ok(c) \/ cursor = NIL \/ ~((processedSoFar + processed) < c.opts.budgetPerTick)
    THEN [c |-> c, processed |-> processed]
    ELSE BucketLoopExactTick(
            Worked(IF c.store.expiresTick[cursor] = c.wheel.nowTick
                   THEN OnExpire(UnlinkWheel(c, cursor, bucket), cursor,
                                 c.store.expiresTick[cursor], "bucket")
                   ELSE c),
            bucket, c.store.wheelNext[cursor], processedSoFar, processed + 1)

\* the guardrail branch of processBucket was taken
Relinked(c) == [c EXCEPT !.out.relinked = TRUE]

\* the loop of processBucket from cursor on
RECURSIVE BucketLoop(_, _, _, _, _)
BucketLoop(c, bucket, cursor, processedSoFar, processed) ==
    IF ~Ok(c) \/ cursor = NIL \/ ~((processedSoFar + processed) < c.opts.budgetPerTick)
    THEN [c |-> c, processed |-> processed]
    ELSE LET id == cursor
             nextCursor == c.store.wheelNext[id]
             exp == c.store.expiresTick[id]
             c1 == IF exp <= c.wheel.nowTick
                   THEN OnExpire(UnlinkWheel(c, id, bucket), id, exp, "bucket")
                   ELSE LET correctBucket == BucketOf(exp)
                        IN IF correctBucket # bucket
                           THEN Relinked(LinkWheelHead(UnlinkWheel(c, id, bucket), id, correctBucket))
                           ELSE c
         IN BucketLoop(Worked(c1), bucket, nextCursor, processedSoFar, processed + 1)

\* processBucket expiring every slot of the bucket, due or not
RECURSIVE BucketLoopAllDue(_, _, _, _, _)
BucketLoopAllDue(c, bucket, cursor, processedSoFar, processed) ==
    IF ~Ok(c) \/ cursor = NIL \/ ~((processedSoFar + processed) < c.opts.budgetPerTick)
    THEN [c |-> c, processed |-> processed]
    ELSE BucketLoopAllDue(Worked(OnExpire(UnlinkWheel(c, cursor, bucket), cursor,
                                          c.store.expiresTick[cursor], "bucket")),
                          bucket, c.store.wheelNext[cursor], processedSoFar, processed + 1)

ProcessBucketAllDue(c, bucket, processedSoFar) ==
    BucketLoopAllDue(c, bucket, c.wheel.wheelHeads[bucket], processedSoFar, 0)

\* processBucket counting from zero, whatever the call has processed so far
ProcessBucketOwnBudget(c, bucket, processedSoFar) ==
    BucketLoop(c, bucket, c.wheel.wheelHeads[bucket], 0, 0)

ProcessBucket(c, bucket, processedSoFar) ==
    BucketLoop(c, bucket, c.wheel.wheelHeads[bucket], processedSoFar, 0)

\* the call runs drainOverflowWithinHorizon, processBucket for nowTick
Draining(c) == [c EXCEPT !.out.drained = Append(@, c.wheel.nowTick)]

Bucketing(c) == [c EXCEPT !.out.buckets = Append(@, c.wheel.nowTick)]

\* advanceToTick stops: the budget is spent
OutOfBudget(c, targetTick, phase) ==
    [c EXCEPT !.wheel.pendingTargetTick = targetTick, !.out.caughtUp = FALSE,
              !.out.stopped = phase]

\* the while loop of advanceToTick; out.caughtUp is the value returned
RECURSIVE AdvanceLoop(_, _, _)
RECURSIVE AdvanceDrained(_, _, _)
RECURSIVE AdvanceBucketDone(_, _, _)

\* after processBucket returned b = [c, processed], p1 processed before it
AdvanceBucketDone(b, targetTick, p1) ==
    IF ~Ok(b.c) THEN b.c
    ELSE IF p1 + b.processed >= b.c.opts.budgetPerTick THEN OutOfBudget(b.c, targetTick, "bucket")
    ELSE AdvanceLoop(b.c, targetTick, p1 + b.processed)

\* after drainOverflowWithinHorizon returned d = [c, processed]
AdvanceDrained(d, targetTick, processed) ==
    IF ~Ok(d.c) THEN d.c
    ELSE IF processed + d.processed >= d.c.opts.budgetPerTick THEN OutOfBudget(d.c, targetTick, "overflow")
    ELSE AdvanceBucketDone(
             ProcessBucket(Bucketing(d.c), BucketOf(d.c.wheel.nowTick), processed + d.processed),
             targetTick, processed + d.processed)

AdvanceLoop(c, targetTick, processed) ==
    IF ~(c.wheel.nowTick < targetTick)
    THEN [c EXCEPT !.wheel.pendingTargetTick = NoPending, !.out.caughtUp = TRUE]
    ELSE AdvanceDrained(
             DrainOverflowWithinHorizon(Draining([c EXCEPT !.wheel.nowTick = @ + 1]), processed),
             targetTick, processed)

\* advanceToTick that takes the tick step it stopped in again
AdvanceToTickResuming(c, targetTick) ==
    IF targetTick < 0 THEN Throw(c, "InvalidTargetTick")
    ELSE IF c.wheel.pendingTargetTick # NoPending
    THEN AdvanceLoop([c EXCEPT !.wheel.nowTick = @ - 1],
                     Max(targetTick, c.wheel.pendingTargetTick), 0)
    ELSE AdvanceLoop(c, targetTick, 0)

\* advanceToTick that sets nowTick to a target behind it
AdvanceToTickRewinding(c, targetTick) ==
    IF targetTick < 0 THEN Throw(c, "InvalidTargetTick")
    ELSE LET target == IF c.wheel.pendingTargetTick # NoPending
                       THEN Max(targetTick, c.wheel.pendingTargetTick)
                       ELSE targetTick
         IN IF target < c.wheel.nowTick
            THEN [c EXCEPT !.wheel.nowTick = target]
            ELSE AdvanceLoop(c, target, 0)

\* advanceToTick without the pending target of the call before
AdvanceToTickForgetful(c, targetTick) ==
    IF targetTick < 0 THEN Throw(c, "InvalidTargetTick")
    ELSE AdvanceLoop(c, targetTick, 0)

AdvanceToTick(c, targetTick) ==
    IF targetTick < 0 THEN Throw(c, "InvalidTargetTick")
    ELSE LET target == IF c.wheel.pendingTargetTick # NoPending
                       THEN Max(targetTick, c.wheel.pendingTargetTick)
                       ELSE targetTick
         IN AdvanceLoop(c, target, 0)

AdvanceToNow(c) == AdvanceToTick(c, TickerNowTick(c))

AdvanceWheel(c) == AdvanceToNow(c)

\* ----------------------------------------------- TtlWheelCache, public part
EvictLru(c) ==
    LET tail == GetTail(c)
    IN IF tail = NIL THEN [c |-> c, evicted |-> FALSE]
       ELSE [c |-> RemoveEntry(c, tail, "lru"), evicted |-> TRUE]

\* while (this.keyIndex.size >= this.maxEntries) of set
RECURSIVE EvictLoop(_)
RECURSIVE EvictNext(_)

\* after evictLru returned e = [c, evicted]
EvictNext(e) ==
    IF ~e.evicted THEN Throw(e.c, "EvictFailed") ELSE EvictLoop(e.c)

EvictLoop(c) ==
    IF ~Ok(c) \/ ~(Len(c.keyIndex) >= c.opts.maxEntries) THEN c
    ELSE EvictNext(EvictLru(c))

\* the expiry tick set and get compute
ExpireTickFor(c, ttl) == TickerNowTick(c) + (ttl \div TickMs)

\* a public method that does not start with an advance of the wheel
ActiveAdvanceSkipped(c) == c

\* the step every public method but clear and size starts with
ActiveAdvance(c) == IF ~c.opts.ttlAutopurge THEN AdvanceWheel(c) ELSE c

\* the update of an existing entry without the LRU touch
SetUpdateUntouched(c, existingId, key, value, ttlMs) ==
    OnDispose(
        Schedule([c EXCEPT !.store.valRef[existingId] = value,
                           !.store.ttlMs[existingId] = ttlMs],
                 existingId, ExpireTickFor(c, ttlMs)),
        key, c.store.valRef[existingId], "set", existingId)

\* the update of an existing entry without a call of onDispose
SetUpdateSilent(c, existingId, key, value, ttlMs) ==
    Touch(Schedule([c EXCEPT !.store.valRef[existingId] = value,
                             !.store.ttlMs[existingId] = ttlMs],
                   existingId, ExpireTickFor(c, ttlMs)),
          existingId)

SetUpdate(c, existingId, key, value, ttlMs) ==
    OnDispose(
        Touch(Schedule([c EXCEPT !.store.valRef[existingId] = value,
                                 !.store.ttlMs[existingId] = ttlMs],
                       existingId, ExpireTickFor(c, ttlMs)),
              existingId),
        key, c.store.valRef[existingId], "set", existingId)

\* this.store.ttlMs[id] = ttlMs
SetTtlMs(c, id, ttlMs) ==
    IF ~Ok(c) THEN c ELSE [c EXCEPT !.store.ttlMs[id] = ttlMs]

\* set from the check of allocId's result a = [c, id] on
SetAllocated(a, key, value, ttlMs) ==
    IF ~Ok(a.c) THEN a.c
    ELSE IF a.id = NIL THEN Throw(a.c, "AllocFailed")
    ELSE LinkHead(
             Schedule(IndexSet(SetTtlMs(SetEntry(a.c, a.id, key, value), a.id, ttlMs),
                               key, a.id),
                      a.id, ExpireTickFor(a.c, ttlMs)),
             a.id)

\* an insertion that makes no room and records the key before it has a slot
SetInsertKeyFirst(c, key, value, ttlMs) ==
    LET a == AllocId(c)
    IN IF a.id = NIL THEN Throw(IndexSet(a.c, key, a.id), "AllocFailed")
       ELSE SetAllocated(a, key, value, ttlMs)

SetInsert(c, key, value, ttlMs) ==
    SetAllocated(AllocId(EvictLoop(c)), key, value, ttlMs)

\* set after its leading advance, without the check of ttlMs
SetAdvancedUnvalidated(c0, key, value, ttl) ==
    IF ~Ok(c0) THEN c0
    ELSE LET existingId == IndexGet(c0, key)
         IN IF existingId # NIL
            THEN SetUpdate(c0, existingId, key, value, ttl.ms)
            ELSE SetInsert(c0, key, value, ttl.ms)

\* set after its leading advance
SetAdvanced(c0, key, value, ttl) ==
    IF ~Ok(c0) THEN c0
    ELSE IF ~ttl.finite \/ ttl.ms <= 0 THEN c0
    ELSE LET existingId == IndexGet(c0, key)
         IN IF existingId # NIL
            THEN SetUpdate(c0, existingId, key, value, ttl.ms)
            ELSE SetInsert(c0, key, value, ttl.ms)

Set(c, key, value, ttl) == SetAdvanced(ActiveAdvance(c), key, value, ttl)

\* return v, unless the call has thrown
Return(c, v) == IF Ok(c) THEN [c EXCEPT !.out.ret = v] ELSE c

\* get after the LRU touch, without sliding expiration
GetTouchedFixed(c1, id) == Return(c1, c1.store.valRef[id])

\* get after the LRU touch: sliding expiration, return of the value
GetTouched(c1, id) ==
    Return(IF c1.opts.updateTTLOnGet /\ c1.store.ttlMs[id] > 0
           THEN Schedule(c1, id, ExpireTickFor(c1, c1.store.ttlMs[id]))
           ELSE c1,
           c1.store.valRef[id])

\* get after its leading advance
GetAdvanced(c0, key) ==
    LET id == IndexGet(c0, key)
    IN IF ~Ok(c0) THEN c0
       ELSE IF id = NIL THEN Return(c0, Undefined)
       ELSE IF c0.store.expiresTick[id] <= TickerNowTick(c0)
       THEN Return(OnExpireEntry(c0, id, "ttl"), Undefined)
       ELSE GetTouched(Touch(c0, id), id)

\* get without the defensive expiry check
GetIgnoringExpiry(c, key) ==
    LET c0 == ActiveAdvance(c)
        id == IndexGet(c0, key)
    IN IF ~Ok(c0) THEN c0
       ELSE IF id = NIL THEN Return(c0, Undefined)
       ELSE GetTouched(Touch(c0, id), id)

Get(c, key) == GetAdvanced(ActiveAdvance(c), key)

\* has after its leading advance, touching the LRU list as get does
HasTouching(c0, key) ==
    LET id == IndexGet(c0, key)
    IN IF ~Ok(c0) THEN c0
       ELSE IF id = NIL THEN Return(c0, FALSE)
       ELSE IF c0.store.expiresTick[id] <= TickerNowTick(c0)
       THEN Return(OnExpireEntry(c0, id, "ttl"), FALSE)
       ELSE Return(Touch(c0, id), TRUE)

\* has after its leading advance
HasAdvanced(c0, key) ==
    LET id == IndexGet(c0, key)
    IN IF ~Ok(c0) THEN c0
       ELSE IF id = NIL THEN Return(c0, FALSE)
       ELSE IF c0.store.expiresTick[id] <= TickerNowTick(c0)
       THEN Return(OnExpireEntry(c0, id, "ttl"), FALSE)
       ELSE Return(c0, TRUE)

Has(c, key) == HasAdvanced(ActiveAdvance(c), key)

\* delete after its leading advance
DeleteAdvanced(c0, key) ==
    LET id == IndexGet(c0, key)
    IN IF ~Ok(c0) THEN c0
       ELSE IF id = NIL THEN Return(c0, FALSE)
       ELSE Return(RemoveEntry(c0, id, "delete"), TRUE)

Delete(c, key) == DeleteAdvanced(ActiveAdvance(c), key)

\* for (const id of ids) removeEntry(id, "clear"), ids = Array.from(keyIndex.values())
RECURSIVE ClearLoop(_, _)
ClearLoop(c, ids) ==
    IF ~Ok(c) \/ ids = << >> THEN c
    ELSE ClearLoop(RemoveEntry(c, Head(ids), "clear"), Tail(ids))

\* clear iterating over the key index while removeEntry deletes from it: only
\* every other entry is visited
ClearWhileIterating(c) ==
    ClearLoop(c, [i \in 1 .. (Len(c.keyIndex) + 1) \div 2 |-> c.keyIndex[2 * i - 1].id])

Clear(c) == ClearLoop(c, [i \in 1 .. Len(c.keyIndex) |-> c.keyIndex[i].id])

Size(c) == Len(c.keyIndex)

\* ------------------------------------------------------------- the system
VARIABLES
    store,       \* EntryStore: the columns, cap, sizeAllocated, the free list
    lru,         \* LruList: head and tail
    wheel,       \* TimerWheel: bucket heads, overflow head, nowTick, pending target
    keyIndex,    \* TtlWheelCache.keyIndex
    opts,        \* the constructor's options ttlAutopurge, updateTTLOnGet, budgetPerTick
    timeMs,      \* the time source: what nowMs() returns
    inputs,      \* this run's caller: the values and ttlMs it passes, how far its clock runs
    recency      \* history: the keys in the cache, the most recently set or read first

vars == <<store, lru, wheel, keyIndex, opts, timeMs, inputs, recency>>

\* what a call has produced when it starts: nothing
NewOut ==
    [err |-> NoError, ret |-> Undefined, caughtUp |-> TRUE,
     disposed |-> << >>, expired |-> << >>, work |-> 0, stopped |-> "none",
     drained |-> << >>, buckets |-> << >>, onExpire |-> "removeEntry",
     relinked |-> FALSE]

\* the cache object as a call finds it
Cur ==
    [store |-> store, lru |-> lru, wheel |-> wheel, keyIndex |-> keyIndex,
     opts |-> opts, timeMs |-> timeMs, out |-> NewOut]

\* the object a call left, as the next call finds it
After(r) == [r EXCEPT !.out = NewOut]

\* the state new TtlWheelCache(options) leaves, the time source at 0
Constructed(options, callers) ==
    /\ opts \in options
    /\ store = NewStore(opts.maxEntries)
    /\ lru = NewLru
    /\ timeMs = 0
    /\ wheel = NewWheel(0)
    /\ keyIndex = << >>
    /\ inputs \in callers
    /\ recency = << >>

\* caches without sliding expiration, in both expiration modes; callers that
\* pass short TTLs (below a tick, one tick) and invalid ones
Init ==
    Constructed([maxEntries : {MaxEntries}, ttlAutopurge : BOOLEAN,
                 updateTTLOnGet : {FALSE}, budgetPerTick : 1 .. MaxBudget],
                {[keys |-> Keys, values |-> Values, ttls |-> {SubTickTtl, OneTickTtl} \cup InvalidTtls,
                  maxTick |-> MaxTick]})

\* recency after a call that left the keys of idx in the cache and used key
Used(key, idx) ==
    LET rest == SelectSeq(recency, LAMBDA k : k # key /\ k \in IndexKeys(idx))
    IN IF key \in IndexKeys(idx) THEN <<key>> \o rest ELSE rest

Kept(idx) == SelectSeq(recency, LAMBDA k : k \in IndexKeys(idx))

\* the cache after a call that produced r
Commit(r) ==
    /\ store' = r.store
    /\ lru' = r.lru
    /\ wheel' = r.wheel
    /\ keyIndex' = r.keyIndex
    /\ UNCHANGED <<opts, timeMs, inputs>>

DoSet ==
    \E key \in inputs.keys, value \in inputs.values, ttl \in inputs.ttls :
        \E r \in {Set(Cur, key, value, ttl)} :
           /\ Commit(r)
           /\ recency' = IF ttl \in ValidTtls /\ (Ok(r) \/ key \notin IndexKeys(keyIndex))
                         THEN Used(key, r.keyIndex)
                         ELSE Kept(r.keyIndex)

DoGet ==
    \E key \in inputs.keys :
        \E r \in {Get(Cur, key)} :
           /\ Commit(r)
           /\ recency' = IF Ok(r) /\ r.out.ret # Undefined
                         THEN Used(key, r.keyIndex)
                         ELSE Kept(r.keyIndex)

DoHas ==
    \E key \in inputs.keys :
        \E r \in {Has(Cur, key)} :
           Commit(r) /\ recency' = Kept(r.keyIndex)

DoDelete ==
    \E key \in inputs.keys :
        \E r \in {Delete(Cur, key)} :
           Commit(r) /\ recency' = Kept(r.keyIndex)

DoClear ==
    \E r \in {Clear(Cur)} :
       Commit(r) /\ recency' = Kept(r.keyIndex)

\* the setInterval callback of startCleanupInterval
AdvancerTick ==
    /\ opts.ttlAutopurge
    /\ \E r \in {AdvanceWheel(Cur)} :
          Commit(r) /\ recency' = Kept(r.keyIndex)

\* the time source moves on by one tick
ClockAdvance ==
    /\ (timeMs + TickMs) \div TickMs <= inputs.maxTick
    /\ timeMs' = timeMs + TickMs
    /\ UNCHANGED <<store, lru, wheel, keyIndex, opts, inputs, recency>>

Next ==
    \/ DoSet
    \/ DoGet
    \/ DoHas
    \/ DoDelete
    \/ DoClear
    \/ AdvancerTick
    \/ ClockAdvance

Spec == Init /\ [][Next]_vars

\* the ticks the time source runs through where reads are spread over time
SlidingTicks == 3

\* caches with and without sliding expiration, in both expiration modes;
\* callers that pass TTLs of one tick and of more than a turn of the wheel
InitSliding ==
    Constructed([maxEntries : {MaxEntries}, ttlAutopurge : BOOLEAN,
                 updateTTLOnGet : BOOLEAN, budgetPerTick : {MaxBudget}],
                {[keys |-> Keys, values |-> {"v1"}, ttls |-> {OneTickTtl, OverflowTtl},
                  maxTick |-> SlidingTicks]})

SpecSliding == InitSliding /\ [][Next]_vars

\* caches whose every advance may expire or move one entry only, so that
\* entries wait in the overflow list past their tick
InitDrain ==
    Constructed([maxEntries : {MaxEntries}, ttlAutopurge : BOOLEAN,
                 updateTTLOnGet : {FALSE}, budgetPerTick : {1}],
                {[keys |-> Keys, values |-> {"v1"}, ttls |-> {OneTickTtl, OverflowTtl},
                  maxTick |-> SlidingTicks]})

SpecDrain == InitDrain /\ [][Next]_vars

\* the budget the constructor gives the wheel when the options name none
DefaultBudget == 200000

\* the ticks the time source runs through where the wheel turns
WheelTicks == 4

\* caches with the default budget, which the entries of the model never
\* exhaust, in both expiration modes; callers that pass TTLs of one tick, of
\* a turn of the wheel and of more
InitWheel ==
    Constructed([maxEntries : {MaxEntries}, ttlAutopurge : BOOLEAN,
                 updateTTLOnGet : {FALSE}, budgetPerTick : {DefaultBudget}],
                {[keys |-> Keys, values |-> {"v1"}, ttls |-> {OneTickTtl, WrapTtl, OverflowTtl},
                  maxTick |-> WheelTicks]})

SpecWheel == InitWheel /\ [][Next]_vars

\* caches of LruEntries entries with the background advancer; callers that
\* pass TTLs below a tick and of one tick for as many keys as the cache holds
InitLru ==
    Constructed([maxEntries : {LruEntries}, ttlAutopurge : {TRUE},
                 updateTTLOnGet : {FALSE}, budgetPerTick : {MaxBudget}],
                {[keys |-> LruKeys, values |-> {"v1"}, ttls |-> {SubTickTtl, OneTickTtl},
                  maxTick |-> 0]})

\* the calls made before the time source has reached the first tick
NextLru ==
    \/ DoSet
    \/ DoGet
    \/ DoHas
    \/ DoDelete
    \/ DoClear
    \/ AdvancerTick

SpecLru == InitLru /\ [][NextLru]_vars

\* the store of the timer wheel's tests: n times allocId and setEntry
RECURSIVE Filled(_, _)
Filled(c, n) ==
    IF n = 0 THEN c
    ELSE SetEntry(AllocId(Filled(c, n - 1)).c, AllocId(Filled(c, n - 1)).id,
                  KeyNames[n], "v1")

\* a call of the wheel with the tests' callback
Harnessed(c) == [c EXCEPT !.out.onExpire = "push"]

\* the ticks the time source of the wheel's tests runs through
HarnessTicks == 2

\* a timer wheel by itself on a store of WheelEntries entries, as
\* timer-wheel.test.ts builds it: no key index, no LRU list; a small
\* budget and one that is never spent
HarnessBuilt(budgetPerTick) ==
    Filled([store |-> NewStore(WheelEntries), lru |-> NewLru, wheel |-> NewWheel(0),
            keyIndex |-> << >>,
            opts |-> [maxEntries |-> WheelEntries, ttlAutopurge |-> TRUE,
                      updateTTLOnGet |-> FALSE, budgetPerTick |-> budgetPerTick],
            timeMs |-> 0, out |-> NewOut],
           WheelEntries)

InitTimerWheel ==
    /\ \E budgetPerTick \in {MaxBudget, DefaultBudget} :
          /\ opts = HarnessBuilt(budgetPerTick).opts
          /\ store = HarnessBuilt(budgetPerTick).store
    /\ lru = NewLru
    /\ timeMs = 0
    /\ wheel = NewWheel(0)
    /\ keyIndex = << >>
    /\ inputs = [keys |-> {}, values |-> {"v1"}, ttls |-> {OneTickTtl, OverflowTtl},
                 maxTick |-> HarnessTicks]
    /\ recency = << >>

\* how far ahead of the wheel's tick the tests schedule: one tick, and
\* more than a turn of the wheel
HarnessDeltas == {ttl.ms \div TickMs : ttl \in inputs.ttls}

\* wheel.schedule(id, expTick)
HarnessSchedule ==
    \E id \in Ids, d \in HarnessDeltas :
        \E r \in {Schedule(Cur, id, wheel.nowTick + d)} :
           Ok(r) /\ Commit(r) /\ recency' = recency

\* wheel.advanceToNow((id) => expired.push(id))
HarnessAdvance ==
    \E r \in {AdvanceToNow(Harnessed(Cur))} :
       Commit(r) /\ recency' = recency

NextTimerWheel ==
    \/ HarnessSchedule
    \/ HarnessAdvance
    \/ ClockAdvance

SpecTimerWheel == InitTimerWheel /\ [][NextTimerWheel]_vars

\* ------------------------------------------------- what the claims speak of
\* the slots reached from cursor along next, at most fuel of them
RECURSIVE Walk(_, _, _)
Walk(next, cursor, fuel) ==
    IF cursor = NIL \/ fuel = 0 THEN << >>
    ELSE <<cursor>> \o Walk(next, next[cursor], fuel - 1)

Range(s) == {s[i] : i \in 1 .. Len(s)}

\* the live slots: the key column is the source of truth
LiveSlots(c) == {id \in Ids : c.store.keyRef[id] # Undefined}

\* the LRU list from head to tail
LruOrder(c) == Walk(c.store.lruNext, c.lru.head, Slots + 1)

\* the slots linked in a wheel bucket or in the overflow list
WheelSlots(c) ==
    UNION {Range(Walk(c.store.wheelNext, c.wheel.wheelHeads[b], Slots + 1)) : b \in Buckets}
    \cup Range(Walk(c.store.wheelNext, c.wheel.overflowHead, Slots + 1))

IndexIds(c) == {c.keyIndex[i].id : i \in 1 .. Len(c.keyIndex)}

\* the cache proper, without what the last call produced
State(c) == [c EXCEPT !.out = NewOut]

\* the call that left r returned v
Returned(r, v) == Ok(r) /\ r.out.ret = v

\* the arguments this run's caller passes to set that set accepts
GoodTtls == inputs.ttls \cap ValidTtls

\* (C1) The three structures agree: the key index maps exactly the live
\* slots (index[keyRef[s]] = s for every live slot s, and nothing else), the
\* LRU list holds exactly the live slots, each once, and so
\* size() = |key index| = number of live slots = LRU list length.
C1_StructuresAgree ==
    /\ \A i \in 1 .. Len(keyIndex) : store.keyRef[keyIndex[i].id] = keyIndex[i].key
    /\ \A id \in LiveSlots(Cur) : IndexGet(Cur, store.keyRef[id]) = id
    /\ Range(LruOrder(Cur)) = LiveSlots(Cur)
    /\ Size(Cur) = Cardinality(LiveSlots(Cur))
    /\ Size(Cur) = Len(LruOrder(Cur))

\* every slot is in the key index, live, in the LRU list and in the wheel,
\* or in none of the four
FullyInOrOut(c) ==
    \A id \in Ids :
        LET inIndex == id \in IndexIds(c)
            live == id \in LiveSlots(c)
            inLru == id \in Range(LruOrder(c))
            inWheel == id \in WheelSlots(c)
        IN (inIndex /\ live /\ inLru /\ inWheel) \/ (~inIndex /\ ~live /\ ~inLru /\ ~inWheel)

\* (C2) Every public method is all-or-nothing: after set, get, has, delete or
\* clear returns or throws, each entry is in all of key index, arena, LRU
\* list and wheel or in none; a set that fails leaves an existing entry's
\* value and ttl as they were.
C2_AllOrNothing ==
    /\ FullyInOrOut(Cur)
    /\ \A key \in inputs.keys, value \in inputs.values, ttl \in inputs.ttls :
          LET r == Set(Cur, key, value, ttl)
              id == IndexGet(Cur, key)
          IN (~Ok(r) /\ id # NIL) =>
                /\ r.store.valRef[id] = store.valRef[id]
                /\ r.store.ttlMs[id] = store.ttlMs[id]

\* (C3) No public call with any arguments at any clock value raises an arena
\* or wheel error, and set raises neither the eviction-failure nor the
\* allocation-failure error.
C3_NoContractError ==
    /\ \A key \in inputs.keys, value \in inputs.values, ttl \in inputs.ttls :
          Ok(Set(Cur, key, value, ttl))
    /\ \A key \in inputs.keys : Ok(Get(Cur, key)) /\ Ok(Has(Cur, key)) /\ Ok(Delete(Cur, key))
    /\ Ok(Clear(Cur))
    /\ (Size(Cur) >= opts.maxEntries => GetTail(Cur) # NIL)

\* (C4) set with a finite positive ttlMs below tickMs is clamped to one tick:
\* the insertion proceeds and the entry is scheduled one tick ahead, in the
\* wheel, whether the wheel is caught up with the clock or lags behind it.
C4_SubTickClamped ==
    SubTickTtl \in inputs.ttls =>
        \A key \in inputs.keys, value \in inputs.values :
            LET r == Set(Cur, key, value, SubTickTtl)
                id == IndexGet(r, key)
            IN /\ Ok(r)
               /\ id # NIL
               /\ r.store.expiresTick[id] \in {r.wheel.nowTick + 1, TickerNowTick(r) + 1}
               /\ id \in WheelSlots(r)

\* (C5) After set(k, v, ttl) with a valid ttl, from any reachable state, a
\* get(k) with no clock advance in between returns v and has(k) is true.
C5_SetThenGet ==
    \A key \in inputs.keys, value \in inputs.values, ttl \in GoodTtls :
        LET r == After(Set(Cur, key, value, ttl))
        IN /\ Returned(Get(r, key), value)
           /\ Returned(Has(r, key), TRUE)

Last(s) == s[Len(s)]

\* delete(key) did what a delete from cache state c0 has to do
DeleteContract(c0, r, key) ==
    /\ Ok(r)
    /\ r.out.ret = (key \in IndexKeys(c0.keyIndex))
    /\ Returned(Get(After(r), key), Undefined)
    /\ Returned(Has(After(r), key), FALSE)
    /\ (r.out.ret = TRUE => Size(r) = Size(c0) - 1)
    /\ (r.out.ret = FALSE => State(r) = State(c0))

\* (C6) delete(k) returns true iff k is in the key index when it is called;
\* after it get(k) returns absent, has(k) is false and size() is one less;
\* delete of an unknown key returns false and leaves the cache unchanged.
C6_DeleteAtCall ==
    \A key \in inputs.keys : DeleteContract(Cur, Delete(Cur, key), key)

\* (C6, amended) delete(k) first advances the wheel when the cache has no
\* background advancer; it returns true iff k is in the key index after that
\* advance (at the call, with a background advancer); after it get(k)
\* returns absent, has(k) is false and size() is one less than after the
\* advance; a delete that returns false changes nothing but what the
\* advance did.
C6_DeleteAfterAdvance ==
    \A key \in inputs.keys : DeleteContract(ActiveAdvance(Cur), Delete(Cur, key), key)

\* C6's case: without a background advancer, one key of the index is gone
\* by the time delete looks it up, another is deleted
C6_Witness ==
    /\ ~opts.ttlAutopurge
    /\ \E k1 \in IndexKeys(keyIndex), k2 \in IndexKeys(keyIndex) :
          /\ Returned(Delete(Cur, k1), FALSE)
          /\ Returned(Delete(Cur, k2), TRUE)
          /\ Size(Delete(Cur, k2)) < Size(Cur) - 1

\* (C7) When an advance returns true (caught up) at tick T, no entry the
\* wheel holds has expires_tick <= T: what an earlier advance left
\* unprocessed when its budget ran out has been expired by then, not later.
C7_CaughtUpMeansExpired ==
    LET r == AdvanceWheel(Cur)
    IN (Ok(r) /\ r.out.caughtUp) =>
          \A id \in WheelSlots(r) : r.store.expiresTick[id] > r.wheel.nowTick

\* the keys of the index whose entry the clock has passed
StaleKeys(c) ==
    {key \in IndexKeys(c.keyIndex) :
        c.store.expiresTick[IndexGet(c, key)] <= TickerNowTick(c)}

\* the read r of a stale key returned absent and removed the entry from
\* every structure, with one disposal of reason ttl
StaleRead(r, key, id, absent) ==
    /\ Ok(r)
    /\ r.out.ret = absent
    /\ key \notin IndexKeys(r.keyIndex)
    /\ id \notin LiveSlots(r) \cup Range(LruOrder(r)) \cup WheelSlots(r)
    /\ Cardinality({i \in 1 .. Len(r.out.disposed) : r.out.disposed[i].key = key}) = 1
    /\ \A i \in 1 .. Len(r.out.disposed) :
          r.out.disposed[i].key = key =>
              r.out.disposed[i].reason = "ttl" /\ r.out.disposed[i].value = store.valRef[id]

\* (C8) No stale reads: when the clock tick is >= an entry's expires_tick,
\* get(k) returns absent and has(k) false, wherever the wheel stands; the
\* read removes the entry from all structures, size() decreases by one, and
\* the disposal reason is ttl.
C8_StaleReadRemovesOne ==
    \A key \in StaleKeys(Cur) :
        LET id == IndexGet(Cur, key)
            g == Get(Cur, key)
            h == Has(Cur, key)
        IN /\ StaleRead(g, key, id, Undefined) /\ Size(g) = Size(Cur) - 1
           /\ StaleRead(h, key, id, FALSE) /\ Size(h) = Size(Cur) - 1

\* the read r removed what it disposed of, all of it for reason ttl, and one
\* entry only when a background advancer does the advancing
RemovedByTtl(r) ==
    /\ Size(r) = Size(Cur) - Len(r.out.disposed)
    /\ \A i \in 1 .. Len(r.out.disposed) : r.out.disposed[i].reason = "ttl"
    /\ (opts.ttlAutopurge => Len(r.out.disposed) = 1)

\* (C8, amended) No stale reads, as above; size() decreases by one for the
\* entry read, and, without a background advancer, by one more for every
\* other entry the read's leading advance expires; all disposals have
\* reason ttl.
C8_StaleReadRemoves ==
    \A key \in StaleKeys(Cur) :
        LET id == IndexGet(Cur, key)
            g == Get(Cur, key)
            h == Has(Cur, key)
        IN /\ StaleRead(g, key, id, Undefined) /\ RemovedByTtl(g)
           /\ StaleRead(h, key, id, FALSE) /\ RemovedByTtl(h)

\* C8's case: a read of a stale key that the leading advance left in the
\* index (its budget ran out on another entry), so that the read itself
\* expires it
C8_Witness ==
    \E key \in StaleKeys(Cur) :
        LET g == Get(Cur, key)
        IN /\ ~opts.ttlAutopurge
           /\ key \in IndexKeys(ActiveAdvance(Cur).keyIndex)
           /\ Ok(g) /\ g.out.ret = Undefined
           /\ Len(g.out.disposed) = 2

\* (C9) When set inserts a new key while size() = max_entries, exactly one
\* entry is evicted with reason lru: the one whose most recent set or
\* successful get is the oldest; has() does not count.
C9_EvictsLeastRecent ==
    \A key \in inputs.keys, value \in inputs.values, ttl \in GoodTtls :
        LET c0 == ActiveAdvance(Cur)
            r == Set(Cur, key, value, ttl)
            evicted == SelectSeq(r.out.disposed, LAMBDA d : d.reason = "lru")
        IN (key \notin IndexKeys(c0.keyIndex) /\ Size(c0) = opts.maxEntries) =>
              /\ Len(evicted) = 1
              /\ evicted[1].key = Last(Kept(c0.keyIndex))

\* (C10) In every reachable state size() <= max_entries.
C10_SizeBounded == Size(Cur) <= opts.maxEntries

\* C10's case: the cache is full and a set of a new key goes through, the
\* cache still full after it
C10_Witness ==
    /\ Size(Cur) = opts.maxEntries
    /\ \E key \in inputs.keys \ IndexKeys(keyIndex), value \in inputs.values :
          LET r == Set(Cur, key, value, OneTickTtl)
          IN Ok(r) /\ key \in IndexKeys(r.keyIndex) /\ Size(r) = opts.maxEntries

\* the ttlMs arguments of this run's caller that set rejects
BadTtls == inputs.ttls \cap InvalidTtls

\* (C11) set(key, value, ttl_ms) with ttl_ms not finite or <= 0 returns
\* without modifying the cache, in both expiration modes: key index,
\* values, expiries, LRU order, wheel and size() are unchanged and no
\* disposal callback is invoked.
C11_InvalidTtlChangesNothing ==
    \A key \in inputs.keys, value \in inputs.values, ttl \in BadTtls :
        LET r == Set(Cur, key, value, ttl)
        IN Ok(r) /\ State(r) = State(Cur) /\ r.out.disposed = << >>

\* (C11, amended) set(key, value, ttl_ms) with ttl_ms not finite or <= 0
\* does nothing but the wheel advance every set starts with when the cache
\* has no background advancer: the cache is left as that advance leaves it,
\* with that advance's disposals (reason ttl) only; with a background
\* advancer nothing changes and no disposal callback is invoked.
C11_InvalidTtlOnlyAdvances ==
    \A key \in inputs.keys, value \in inputs.values, ttl \in BadTtls :
        LET r == Set(Cur, key, value, ttl)
        IN /\ Ok(r)
           /\ r = ActiveAdvance(Cur)
           /\ (opts.ttlAutopurge => State(r) = State(Cur) /\ r.out.disposed = << >>)

\* C11's case: without a background advancer, a set with a rejected ttlMs
\* on a key of the cache expires an entry; with one, the same call finds
\* entries and leaves them
C11_Witness ==
    \E key \in IndexKeys(keyIndex), value \in inputs.values, ttl \in BadTtls :
        LET r == Set(Cur, key, value, ttl)
        IN /\ ~opts.ttlAutopurge
           /\ Ok(r)
           /\ Len(r.out.disposed) > 0
           /\ Size(r) < Size(Cur)

\* the onDispose calls of r for removals, and those for overwritten values
RemovalLog(r) == SelectSeq(r.out.disposed, LAMBDA d : d.reason # "set")

OverwriteLog(r) == SelectSeq(r.out.disposed, LAMBDA d : d.reason = "set")

\* log holds one call for each entry of before that after no longer has, and
\* no other: with that entry's key and value, and with the reason given
DisposedOnce(before, after, log, reason) ==
    /\ \A i \in 1 .. Len(log) :
          /\ log[i].reason = reason
          /\ log[i].key \in IndexKeys(before.keyIndex)
          /\ log[i].value = before.store.valRef[IndexGet(before, log[i].key)]
    /\ \A i \in 1 .. Len(log), j \in 1 .. Len(log) : log[i].key = log[j].key => i = j
    /\ {log[i].key : i \in 1 .. Len(log)} =
          IndexKeys(before.keyIndex) \ IndexKeys(after.keyIndex)

\* the removals of the call that left r, which started from a with the
\* advance that left a and then removed for the reason given, are disposed
\* of once each
CallDisposesOnce(a, r, reason) ==
    LET log == RemovalLog(r)
        n == Len(a.out.disposed)
    IN /\ Len(log) >= n
       /\ SubSeq(log, 1, n) = a.out.disposed
       /\ DisposedOnce(Cur, a, a.out.disposed, "ttl")
       /\ DisposedOnce(a, r, SubSeq(log, n + 1, Len(log)), reason)

\* every public call and the advancer dispose of what they remove, once
RemovalsDisposedOnce ==
    /\ \A key \in inputs.keys, value \in inputs.values, ttl \in inputs.ttls :
          CallDisposesOnce(ActiveAdvance(Cur), Set(Cur, key, value, ttl), "lru")
    /\ \A key \in inputs.keys :
          /\ CallDisposesOnce(ActiveAdvance(Cur), Get(Cur, key), "ttl")
          /\ CallDisposesOnce(ActiveAdvance(Cur), Has(Cur, key), "ttl")
          /\ CallDisposesOnce(ActiveAdvance(Cur), Delete(Cur, key), "delete")
    /\ CallDisposesOnce(Cur, Clear(Cur), "clear")
    /\ CallDisposesOnce(AdvanceWheel(Cur), AdvanceWheel(Cur), "ttl")

Overwrites(key, ttl) ==
    /\ ttl \in ValidTtls
    /\ key \in IndexKeys(ActiveAdvance(Cur).keyIndex)
    /\ Ok(Set(Cur, key, "v1", ttl))

RemovalCalls ==
    LET logs == {RemovalLog(Set(Cur, key, value, ttl)) :
                    key \in inputs.keys, value \in inputs.values, ttl \in inputs.ttls}
                \cup {RemovalLog(Get(Cur, key)) : key \in inputs.keys}
                \cup {RemovalLog(Has(Cur, key)) : key \in inputs.keys}
                \cup {RemovalLog(Delete(Cur, key)) : key \in inputs.keys}
                \cup {RemovalLog(Clear(Cur)), RemovalLog(AdvanceWheel(Cur))}
    IN UNION {Range(log) : log \in logs}

\* (C13) On every removal path (ttl, lru, delete, clear) the disposal
\* callback of an entry runs before the entry's slot id goes back to the
\* free list: when the callback runs, the slot is live and not on the free
\* list.
C13_DisposedBeforeFreed ==
    \A d \in RemovalCalls : d.live /\ ~d.free

\* c is empty: no key, no live slot, nothing in the LRU list, in a wheel
\* bucket or in the overflow list, and every allocated slot on the free list
Emptied(c) ==
    /\ Size(c) = 0
    /\ \A key \in inputs.keys : IndexGet(c, key) = NIL
    /\ LiveSlots(c) = {}
    /\ c.lru.head = NIL /\ c.lru.tail = NIL
    /\ \A b \in Buckets : c.wheel.wheelHeads[b] = NIL
    /\ c.wheel.overflowHead = NIL
    /\ Len(c.store.freeList) = c.store.sizeAllocated
    /\ Range(c.store.freeList) = 0 .. c.store.sizeAllocated - 1

\* (C14) clear() is total and idempotent: from any reachable state it
\* leaves the cache empty (size 0, every key absent, LRU list empty, every
\* wheel bucket and the overflow list empty, every allocated slot on the
\* free list) after one disposal with reason clear per entry, and a second
\* clear() changes nothing and emits no disposal.
C14_ClearEmptiesOnce ==
    LET r == Clear(Cur)
        r2 == Clear(State(r))
    IN /\ Ok(r)
       /\ Emptied(r)
       /\ Len(r.out.disposed) = Size(Cur)
       /\ DisposedOnce(Cur, r, r.out.disposed, "clear")
       /\ Ok(r2)
       /\ State(r2) = State(r)
       /\ r2.out.disposed = << >>

\* C14's case: clear() ran on a full cache, has emptied it, and one of the
\* slots it freed was allocated past the first
C14_Witness ==
    /\ Size(Cur) = opts.maxEntries
    /\ Len(Clear(Cur).out.disposed) = opts.maxEntries
    /\ Emptied(Clear(Cur))
    /\ Clear(Cur).store.sizeAllocated = opts.maxEntries

\* the onDispose calls of reason ttl that the public calls and the advancer
\* make from the current state
TtlRemovals == {d \in RemovalCalls : d.reason = "ttl"}

\* an entry is removed for reason ttl only when its expiry tick has come
ExpiredOnlyWhenDue ==
    \A d \in TtlRemovals :
        /\ d.key \in IndexKeys(keyIndex)
        /\ store.expiresTick[IndexGet(Cur, d.key)] <= TickerNowTick(Cur)

\* get(key) of an entry whose expiry tick has not come returns its value
ReadInTimeSucceeds(key) ==
    LET id == IndexGet(Cur, key)
    IN store.expiresTick[id] > TickerNowTick(Cur) =>
          Returned(Get(Cur, key), store.valRef[id])

\* after a successful get(key) that left r, with sliding expiration the
\* entry is scheduled ttlMs / tickMs ticks after the current tick
Slid(key, r) ==
    LET id == IndexGet(r, key)
    IN /\ r.store.expiresTick[id] = TickerNowTick(Cur) + (r.store.ttlMs[id] \div TickMs)
       /\ r.store.wheelBucket[id] =
             IF r.store.expiresTick[id] - r.wheel.nowTick > HorizonTicks
             THEN BUCKET_OVERFLOW
             ELSE BucketOf(r.store.expiresTick[id])
       /\ id \in WheelSlots(r)

\* the expiry tick and the wheel position of the entry of key are in r what
\* they are in c
SamePlace(key, c, r) ==
    LET id == IndexGet(c, key)
    IN /\ IndexGet(r, key) = id
       /\ r.store.expiresTick[id] = c.store.expiresTick[id]
       /\ r.store.wheelBucket[id] = c.store.wheelBucket[id]
       /\ r.store.ttlMs[id] = c.store.ttlMs[id]
       /\ (id \in WheelSlots(r)) = (id \in WheelSlots(c))

\* (C15) Sliding expiration: with updateTTLOnGet every successful get(k)
\* reschedules the entry to expire at the current tick + floor(ttlMs / tickMs),
\* so an entry read at intervals shorter than its TTL never expires (a read
\* before the expiry tick succeeds, and nothing expires before its expiry
\* tick); without updateTTLOnGet, get leaves the entry's expiry tick and
\* wheel position unchanged.
C15_SlidingOrUnchanged ==
    /\ ExpiredOnlyWhenDue
    /\ \A key \in IndexKeys(keyIndex) :
          LET r == Get(Cur, key)
          IN /\ ReadInTimeSucceeds(key)
             /\ Ok(r) /\ r.out.ret # Undefined =>
                   IF opts.updateTTLOnGet THEN Slid(key, r) ELSE SamePlace(key, Cur, r)

\* (C15, amended) As above with updateTTLOnGet; without it, get leaves the
\* entry's expiry tick and wheel position as get's leading advance of the
\* wheel (active mode) left them, which moves an entry from the overflow
\* list to a bucket when its expiry tick has come within the horizon.
C15_SlidingOrAsAdvanced ==
    /\ ExpiredOnlyWhenDue
    /\ \A key \in IndexKeys(keyIndex) :
          LET r == Get(Cur, key)
          IN /\ ReadInTimeSucceeds(key)
             /\ Ok(r) /\ r.out.ret # Undefined =>
                   IF opts.updateTTLOnGet THEN Slid(key, r)
                   ELSE SamePlace(key, ActiveAdvance(Cur), r)

\* C15's case: on a cache with sliding expiration, at a tick after the first,
\* a get finds an entry in the overflow list and moves its expiry tick on
C15_Witness ==
    /\ opts.updateTTLOnGet
    /\ TickerNowTick(Cur) > 0
    /\ \E key \in IndexKeys(keyIndex) :
          LET id == IndexGet(Cur, key)
              r == Get(Cur, key)
          IN /\ Returned(r, store.valRef[id])
             /\ store.wheelBucket[id] = BUCKET_OVERFLOW
             /\ Slid(key, r)
             /\ r.store.expiresTick[id] > store.expiresTick[id]

\* the keys of the entries that are in the cache and whose expiry tick has
\* not come
FreshKeys ==
    {key \in IndexKeys(keyIndex) :
        store.expiresTick[IndexGet(Cur, key)] > TickerNowTick(Cur)}

\* (C16) has(k) on a present, unexpired entry changes nothing: the LRU
\* order and the entry's expiry tick, ttl and wheel position are unchanged,
\* also with updateTTLOnGet.
C16_HasChangesNothing ==
    \A key \in FreshKeys :
        LET r == Has(Cur, key)
        IN /\ Returned(r, TRUE)
           /\ LruOrder(r) = LruOrder(Cur)
           /\ SamePlace(key, Cur, r)

\* (C16, amended) has(k) on a present, unexpired entry returns true and
\* changes nothing but what its leading advance of the wheel (active mode)
\* changes: the cache, and with it the LRU order and the entry's expiry tick,
\* ttl and wheel position, is as that advance left it, also with
\* updateTTLOnGet.
C16_HasOnlyAdvances ==
    \A key \in FreshKeys :
        LET r == Has(Cur, key)
        IN /\ Returned(r, TRUE)
           /\ State(r) = State(ActiveAdvance(Cur))
           /\ LruOrder(r) = LruOrder(ActiveAdvance(Cur))
           /\ SamePlace(key, ActiveAdvance(Cur), r)
           /\ (opts.ttlAutopurge => State(r) = State(Cur))

\* C16's case: with updateTTLOnGet, has finds a fresh entry that is not the
\* most recently used one and that a get would reschedule
C16_Witness ==
    /\ opts.updateTTLOnGet
    /\ \E key \in FreshKeys :
          LET id == IndexGet(Cur, key)
          IN /\ Returned(Has(Cur, key), TRUE)
             /\ lru.head # id
             /\ Returned(Get(Cur, key), store.valRef[id])
             /\ Get(Cur, key).store.expiresTick[id] # store.expiresTick[id]

\* the slots linked in bucket b of c
BucketSlots(c, b) == Range(Walk(c.store.wheelNext, c.wheel.wheelHeads[b], Slots + 1))

\* the slots linked in the overflow list of c
OverflowSlots(c) == Range(Walk(c.store.wheelNext, c.wheel.overflowHead, Slots + 1))

\* the slots the wheel passes to onExpire in the advance that left r
ExpiredIds(r) == {r.out.expired[i].id : i \in 1 .. Len(r.out.expired)}

\* (C17) Wrap-around: entries whose expiry ticks differ by a multiple of
\* the wheel size share a bucket; when the wheel processes the bucket, only
\* the entries that are due are expired and one not yet due stays
\* scheduled; when the budget is never exhausted, every entry, from a bucket
\* or from the overflow list, is passed to onExpire in the tick step in which
\* nowTick becomes its expiry tick, neither earlier nor later.
C17_ExpiredAtItsTick ==
    LET r == AdvanceWheel(Cur)
    IN /\ \A b \in Buckets : \A id \in BucketSlots(Cur, b) :
             BucketOf(store.expiresTick[id]) = b
       /\ \A id \in WheelSlots(Cur) : store.expiresTick[id] > wheel.nowTick
       /\ Ok(r) /\ r.out.caughtUp
       /\ \A i \in 1 .. Len(r.out.expired) :
             /\ r.out.expired[i].exp = r.out.expired[i].nowTick
             /\ r.out.expired[i].exp = store.expiresTick[r.out.expired[i].id]
       /\ ExpiredIds(r) =
             {id \in WheelSlots(Cur) : store.expiresTick[id] <= TickerNowTick(Cur)}
       /\ \A id \in WheelSlots(Cur) \ ExpiredIds(r) :
             /\ id \in WheelSlots(r)
             /\ r.store.expiresTick[id] = store.expiresTick[id]

\* C17's case: a bucket holds an entry that is due and one a turn of the
\* wheel later, which the overflow list held before; the advance expires
\* the first and keeps the second
C17_Witness ==
    \E b \in Buckets : \E id1 \in BucketSlots(Cur, b), id2 \in OverflowSlots(Cur) :
        LET r == AdvanceWheel(Cur)
        IN /\ store.expiresTick[id2] = store.expiresTick[id1] + WheelSize
           /\ ExpiredIds(r) = {id1}
           /\ id2 \in BucketSlots(r, b)
           /\ ExpiredIds(AdvanceWheel([After(r) EXCEPT !.timeMs = @ + WheelSize * TickMs]))
                 = {id2}

\* the call that left r has moved out of the overflow list, expired or
\* visited in a bucket no more entries than the budget allows, and has
\* stopped short of its target only with the budget spent
WithinBudget(r) ==
    /\ r.out.work <= opts.budgetPerTick
    /\ Len(r.out.expired) <= opts.budgetPerTick
    /\ ~r.out.caughtUp => r.out.work = opts.budgetPerTick

\* (C18) Bounded work per advance: in one advanceToTick call the overflow
\* drain and the bucket phase of all tick steps share one counter, and the
\* number of entries moved out of overflow, expired, or visited in a bucket
\* never exceeds budgetPerTick; so one advance calls onExpire at most
\* budgetPerTick times.
C18_WorkWithinBudget ==
    /\ WithinBudget(AdvanceWheel(Cur))
    /\ \A key \in inputs.keys :
          /\ WithinBudget(Get(Cur, key))
          /\ WithinBudget(Has(Cur, key))
          /\ WithinBudget(Delete(Cur, key))
          /\ \A value \in inputs.values, ttl \in inputs.ttls :
                WithinBudget(Set(Cur, key, value, ttl))

\* C18's case: one advance moves an entry out of the overflow list and
\* visits a bucket, spends its budget on that and stops short of its target
\* with an entry still due
C18_Witness ==
    LET r == AdvanceWheel(Cur)
    IN /\ Ok(r) /\ ~r.out.caughtUp
       /\ r.out.work = opts.budgetPerTick
       /\ OverflowSlots(Cur) \ OverflowSlots(r) # {}
       /\ Len(r.out.expired) < r.out.work
       /\ \E id \in WheelSlots(r) : r.store.expiresTick[id] <= TickerNowTick(r)

\* list, walked from a head along wheelNext, is a well-formed doubly linked
\* list of c: it ends, holds no slot twice, and wheelPrev mirrors wheelNext
WellLinked(c, list) ==
    /\ Len(list) <= Slots
    /\ \A i \in 1 .. Len(list), j \in 1 .. Len(list) : list[i] = list[j] => i = j
    /\ \A i \in 1 .. Len(list) :
          c.store.wheelPrev[list[i]] = IF i = 1 THEN NIL ELSE list[i - 1]

\* the list of bucket b, and for BUCKET_OVERFLOW the overflow list, of c
WheelList(c, b) ==
    Walk(c.store.wheelNext,
         IF b = BUCKET_OVERFLOW THEN c.wheel.overflowHead ELSE c.wheel.wheelHeads[b],
         Slots + 1)

\* (C19) In every reachable state each slot is in exactly one wheel state,
\* the one its wheelBucket column names: a slot with wheelBucket = b >= 0 is
\* reached exactly once from wheelHeads[b] and from no other list, a slot
\* with wheelBucket = OVERFLOW exactly once from overflowHead only, a slot
\* with wheelBucket = NONE is in no list; all bucket lists and the overflow
\* list are acyclic with consistent prev/next pointers.
C19_WheelMembership ==
    /\ \A b \in Buckets \cup {BUCKET_OVERFLOW} :
          /\ WellLinked(Cur, WheelList(Cur, b))
          /\ Range(WheelList(Cur, b)) = {id \in Ids : store.wheelBucket[id] = b}
    /\ \A id \in Ids : store.wheelBucket[id] \in Buckets \cup {BUCKET_OVERFLOW, BUCKET_NONE}

\* C19's case: one slot is scheduled in a bucket and the other in the
\* overflow list, and an advance is about to move the second into the
\* bucket of the first
C19_Witness ==
    \E b \in Buckets :
        /\ Len(WheelList(Cur, b)) = 1
        /\ Len(WheelList(Cur, BUCKET_OVERFLOW)) = 1
        /\ Len(WheelList(AdvanceWheel(Cur), b)) = 2

\* (C20) After any sequence of public cache operations, freeCount + the
\* number of live slots = sizeAllocated, and sizeAllocated <= cap <= maxEntries.
C20_ArenaAccounting ==
    /\ Len(store.freeList) + Cardinality(LiveSlots(Cur)) = store.sizeAllocated
    /\ store.sizeAllocated <= store.cap
    /\ store.cap <= opts.maxEntries

\* C20's case: every slot has been allocated, one is back on the free list
\* and one is live
C20_Witness ==
    /\ store.sizeAllocated = opts.maxEntries
    /\ Len(store.freeList) > 0
    /\ LiveSlots(Cur) # {}

\* the ids freeId may be called with: the slots, and one id on either side
IdInputs == -1 .. Slots

\* (C21) The free list never holds the same slot id twice and never holds
\* a live slot id; freeId on a slot whose key column is absent fails with
\* DoubleFree, and freeId on an id outside [0, cap) fails with InvalidId, in
\* both cases with the free list, the free count and all columns unchanged.
C21_FreeListSound ==
    /\ \A i \in 1 .. Len(store.freeList), j \in 1 .. Len(store.freeList) :
          store.freeList[i] = store.freeList[j] => i = j
    /\ Range(store.freeList) \cap LiveSlots(Cur) = {}
    /\ \A id \in IdInputs :
          LET r == FreeId(Cur, id)
          IN IF id < 0 \/ id >= store.cap
             THEN r.out.err = "InvalidId" /\ State(r) = State(Cur)
             ELSE IF store.keyRef[id] = Undefined
             THEN r.out.err = "DoubleFree" /\ State(r) = State(Cur)
             ELSE /\ Ok(r)
                  /\ r.store.freeList = Append(store.freeList, id)
                  /\ r.store.keyRef[id] = Undefined

\* C21's case: both slots are on the free list, and freeId is called with
\* one of them and with the ids next to the arena
C21_Witness ==
    /\ Len(store.freeList) = opts.maxEntries
    /\ FreeId(Cur, store.freeList[1]).out.err = "DoubleFree"
    /\ FreeId(Cur, store.cap).out.err = "InvalidId"
    /\ FreeId(Cur, -1).out.err = "InvalidId"

\* the LRU list of c walked along lruPrev, from tail to head
LruReverse(c) == Walk(c.store.lruPrev, c.lru.tail, Slots + 1)

Reversed(list) == [i \in 1 .. Len(list) |-> list[Len(list) + 1 - i]]

\* (C22) In every reachable state the LRU list is a well-formed doubly
\* linked list: the walk along lruNext from head reaches tail and ends at
\* NIL without repeating a slot, the walk along lruPrev from tail visits
\* the same slots in exactly the reverse order, and the list is empty iff
\* head = NIL iff tail = NIL.
C22_LruWellFormed ==
    /\ Len(LruOrder(Cur)) <= Slots
    /\ \A i \in 1 .. Len(LruOrder(Cur)), j \in 1 .. Len(LruOrder(Cur)) :
          LruOrder(Cur)[i] = LruOrder(Cur)[j] => i = j
    /\ LruOrder(Cur) # << >> => LruOrder(Cur)[Len(LruOrder(Cur))] = lru.tail
    /\ LruReverse(Cur) = Reversed(LruOrder(Cur))
    /\ (LruOrder(Cur) = << >>) = (lru.head = NIL)
    /\ (lru.head = NIL) = (lru.tail = NIL)

\* the keys of the entries whose expiry tick is the current clock tick or an
\* earlier one
DueKeys ==
    {key \in IndexKeys(keyIndex) :
        store.expiresTick[IndexGet(Cur, key)] <= TickerNowTick(Cur)}

\* the call that left r began with an advance of the wheel to the current
\* clock tick: its first disposals are those of the due entries, with
\* reason ttl, and no other disposal has that reason
AdvancedFirst(r) ==
    LET n == Cardinality(DueKeys)
        log == r.out.disposed
    IN /\ r.wheel.nowTick = TickerNowTick(Cur)
       /\ Len(log) >= n
       /\ {log[i].key : i \in 1 .. n} = DueKeys
       /\ \A i \in 1 .. Len(log) :
             IF i <= n
             THEN /\ log[i].reason = "ttl"
                  /\ log[i].value = store.valRef[IndexGet(Cur, log[i].key)]
             ELSE log[i].reason # "ttl"

\* set, get, has and delete start with the advance, and act on a due entry's
\* key as on an absent key
ActiveCallsAdvanceFirst ==
    \A key \in inputs.keys :
        /\ AdvancedFirst(Get(Cur, key))
        /\ AdvancedFirst(Has(Cur, key))
        /\ AdvancedFirst(Delete(Cur, key))
        /\ \A value \in inputs.values, ttl \in inputs.ttls :
              /\ AdvancedFirst(Set(Cur, key, value, ttl))
              /\ OverwriteLog(Set(Cur, key, value, ttl)) # << >> => key \notin DueKeys
        /\ key \in DueKeys =>
              /\ Returned(Get(Cur, key), Undefined)
              /\ Returned(Has(Cur, key), FALSE)
              /\ Returned(Delete(Cur, key), FALSE)

\* size() counts the entries of the key index, collected or not
SizeCountsUncollected == Size(Cur) = Cardinality(IndexKeys(keyIndex))

NoLeftover == \A id \in WheelSlots(Cur) : store.expiresTick[id] > wheel.nowTick

At(r, tick) == [After(r) EXCEPT !.timeMs = tick * TickMs]

\* the slots an advance that stopped at its target left due in the bucket
\* of the wheel's tick
LeftInBucket(r) ==
    {id \in BucketSlots(r, BucketOf(r.wheel.nowTick)) :
        r.store.expiresTick[id] <= r.wheel.nowTick}

\* the advance from the current state runs out of budget in the bucket of
\* its target tick
StopsInTargetBucket ==
    /\ ~AdvanceWheel(Cur).out.caughtUp
    /\ AdvanceWheel(Cur).out.stopped = "bucket"
    /\ AdvanceWheel(Cur).wheel.nowTick = TickerNowTick(Cur)

TargetTicks == 0 .. (inputs.maxTick + 1)

\* the target advanceToTick(targetTick) works towards from c
EffectiveTarget(c, targetTick) ==
    IF c.wheel.pendingTargetTick # NoPending
    THEN Max(targetTick, c.wheel.pendingTargetTick)
    ELSE targetTick

\* (C25) advanceToTick works towards max(targetTick, pendingTargetTick)
\* when the call before returned false, so a call with a smaller target
\* still reaches the pending one; it returns true only with nowTick at or
\* past that target and pendingTargetTick cleared, and false only when the
\* work counter reached budgetPerTick, with pendingTargetTick set to that
\* target.
C25_EffectiveTarget ==
    \A t \in TargetTicks :
        LET r == AdvanceToTick(Cur, t)
            eff == EffectiveTarget(Cur, t)
        IN Ok(r) =>
              /\ r.out.caughtUp =>
                    /\ r.wheel.nowTick >= eff
                    /\ r.wheel.nowTick = Max(wheel.nowTick, eff)
                    /\ r.wheel.pendingTargetTick = NoPending
              /\ ~r.out.caughtUp =>
                    /\ r.out.work >= opts.budgetPerTick
                    /\ r.wheel.pendingTargetTick = eff
                    /\ r.wheel.nowTick <= eff

\* C25's case: a call left a pending target ahead of the wheel's tick; a
\* call with a smaller target reaches the pending one
C25_Witness ==
    /\ wheel.pendingTargetTick # NoPending
    /\ wheel.nowTick < wheel.pendingTargetTick
    /\ \E t \in TargetTicks :
          /\ t < wheel.pendingTargetTick
          /\ Ok(AdvanceToTick(Cur, t))
          /\ AdvanceToTick(Cur, t).out.caughtUp
          /\ AdvanceToTick(Cur, t).wheel.nowTick = wheel.pendingTargetTick

\* the ticks a call ran the overflow drain for, processed the bucket of
DrainedTicks(r) == Range(r.out.drained)

BucketTicks(r) == Range(r.out.buckets)

\* (C26) Every tick that nowTick has passed through, over an advance and
\* the advance that follows it, had its overflow drain run and then its
\* bucket (tick & wheelMask) processed before nowTick was incremented
\* again: no tick's bucket is skipped, also when the budget ran out during
\* the overflow drain and a later call resumed the advance.
C26_NoBucketSkipped ==
    \A t \in TargetTicks :
        LET r1 == AdvanceWheel(Cur)
            r2 == AdvanceToTick(After(r1), t)
        IN (Ok(r1) /\ Ok(r2)) =>
              \A n \in (wheel.nowTick + 1) .. (r2.wheel.nowTick - 1) :
                 /\ n \in DrainedTicks(r1) \cup DrainedTicks(r2)
                 /\ n \in BucketTicks(r1) \cup BucketTicks(r2)

\* within one call no bucket is skipped: every tick passed is drained and
\* its bucket processed
NoBucketSkippedInCall ==
    \A t \in TargetTicks :
        LET r == AdvanceToTick(Cur, t)
        IN Ok(r) =>
              \A n \in (wheel.nowTick + 1) .. (r.wheel.nowTick - 1) :
                 n \in DrainedTicks(r) /\ n \in BucketTicks(r)

\* the calls of onExpire an advance made
Expirations(r) == {r.out.expired[i] : i \in 1 .. Len(r.out.expired)}

\* (C27) The wheel never expires an entry early: onExpire(id) is called,
\* from bucket processing or from the overflow drain, only when
\* expiresTick[id] <= nowTick at that moment, and the slot is unlinked from
\* its wheel list (wheelBucket = NONE) before the callback runs.
C27_NeverEarlyAndUnlinked ==
    \A t \in TargetTicks :
        \A e \in Expirations(AdvanceToTick(Cur, t)) :
           /\ e.due
           /\ e.exp <= e.nowTick
           /\ e.nowTick <= AdvanceToTick(Cur, t).wheel.nowTick
           /\ e.bucket = BUCKET_NONE
           /\ e.phase \in {"bucket", "overflow"}

\* C27's case: an advance finds a due entry in the overflow list, and the
\* drain expires it, the slot unlinked
C27_Witness ==
    \E t \in TargetTicks :
        \E e \in Expirations(AdvanceToTick(Cur, t)) :
           e.phase = "overflow" /\ e.due /\ e.bucket = BUCKET_NONE

\* list without id, the other members in their order
Without(list, id) == SelectSeq(list, LAMBDA x : x # id)

\* the wheel lists: every bucket and the overflow list
WheelLists == Buckets \cup {BUCKET_OVERFLOW}

\* how far ahead of nowTick the wheel's callers schedule
Deltas == 1 .. (HorizonTicks + 2)

\* the list schedule(id, expTick) links id into
TargetList(c, expTick) ==
    IF expTick - c.wheel.nowTick > HorizonTicks THEN BUCKET_OVERFLOW ELSE BucketOf(expTick)

\* (C28) schedule(id, expTick) with expTick > nowTick unlinks id from
\* wherever it is, writes expiresTick[id] = expTick, and links id at the
\* head of the overflow list iff expTick - nowTick > horizonTicks
\* (incrementing overflowCountApprox), otherwise at the head of bucket
\* expTick & wheelMask; after it id is in exactly that one list and in no
\* other.
C28_ScheduleLinks ==
    \A id \in Ids, d \in Deltas :
        LET expTick == wheel.nowTick + d
            r == Schedule(Cur, id, expTick)
            target == TargetList(Cur, expTick)
            wasOverflow == store.wheelBucket[id] = BUCKET_OVERFLOW
        IN /\ Ok(r)
           /\ r.store.expiresTick[id] = expTick
           /\ r.store.wheelBucket[id] = target
           /\ (target = BUCKET_OVERFLOW) = (d > HorizonTicks)
           /\ \A b \in WheelLists :
                 /\ WheelList(r, b) = IF b = target
                                      THEN <<id>> \o Without(WheelList(Cur, b), id)
                                      ELSE Without(WheelList(Cur, b), id)
                 /\ WellLinked(r, WheelList(r, b))
           /\ r.wheel.overflowCountApprox =
                 wheel.overflowCountApprox
                    - (IF wasOverflow /\ wheel.overflowCountApprox > 0 THEN 1 ELSE 0)
                    + (IF target = BUCKET_OVERFLOW THEN 1 ELSE 0)
           /\ \A o \in Ids \ {id} :
                 /\ r.store.expiresTick[o] = store.expiresTick[o]
                 /\ r.store.wheelBucket[o] = store.wheelBucket[o]
           /\ r.wheel.nowTick = wheel.nowTick
           /\ r.wheel.pendingTargetTick = wheel.pendingTargetTick
           /\ r.lru = lru /\ r.keyIndex = keyIndex /\ r.out = NewOut

\* C28's case: a slot of the overflow list is rescheduled, a turn of the
\* wheel ahead, into a bucket that holds another slot
C28_Witness ==
    \E id \in Ids, o \in Ids :
        /\ id # o
        /\ store.wheelBucket[id] = BUCKET_OVERFLOW
        /\ store.wheelBucket[o] = BucketOf(wheel.nowTick + HorizonTicks)
        /\ WheelList(Schedule(Cur, id, wheel.nowTick + HorizonTicks),
                     BucketOf(wheel.nowTick + HorizonTicks)) = <<id, o>>
        /\ WheelList(Schedule(Cur, id, wheel.nowTick + HorizonTicks), BUCKET_OVERFLOW) = << >>

\* the expTick arguments schedule refuses: negative, past, the current tick
RefusedTicks == -1 .. wheel.nowTick

C30_UnlinkRemovesExactlyId ==
    \A id \in Ids :
        LET r == WheelUnlink(Cur, id)
            wasOverflow == store.wheelBucket[id] = BUCKET_OVERFLOW
        IN /\ Ok(r)
           /\ r.store.wheelBucket[id] = BUCKET_NONE
           /\ r.store.wheelPrev[id] = NIL
           /\ r.store.wheelNext[id] = NIL
           /\ \A b \in WheelLists :
                 /\ WheelList(r, b) = Without(WheelList(Cur, b), id)
                 /\ WellLinked(r, WheelList(r, b))
           /\ \A o \in Ids \ {id} : r.store.wheelBucket[o] = store.wheelBucket[o]
           /\ r.store.expiresTick = store.expiresTick
           /\ r.wheel.overflowCountApprox >= 0
           /\ r.wheel.overflowCountApprox =
                 IF wasOverflow /\ wheel.overflowCountApprox > 0
                 THEN wheel.overflowCountApprox - 1
                 ELSE wheel.overflowCountApprox
           /\ r.wheel.nowTick = wheel.nowTick
           /\ r.wheel.pendingTargetTick = wheel.pendingTargetTick
           /\ r.lru = lru /\ r.keyIndex = keyIndex
           /\ store.wheelBucket[id] = BUCKET_NONE => r = Cur
           /\ WheelUnlink(r, id) = r

\* C30's case: a bucket holds two slots, a third is unscheduled;
\* unlinking either of the two leaves the other as the only member
C30_Witness ==
    \E b \in Buckets :
        /\ Len(WheelList(Cur, b)) = 2
        /\ WheelList(WheelUnlink(Cur, WheelList(Cur, b)[1]), b) = <<WheelList(Cur, b)[2]>>
        /\ WheelList(WheelUnlink(Cur, WheelList(Cur, b)[2]), b) = <<WheelList(Cur, b)[1]>>
        /\ \E id \in Ids : store.wheelBucket[id] = BUCKET_NONE

\* C30's case in the overflow list: its only member is unlinked and the
\* counter goes back to zero
UnlinksFromOverflow ==
    \E id \in Ids :
        /\ store.wheelBucket[id] = BUCKET_OVERFLOW
        /\ wheel.overflowCountApprox = 1
        /\ WheelUnlink(Cur, id).wheel.overflowCountApprox = 0
        /\ WheelUnlink(Cur, id).wheel.overflowHead = NIL

\* the cache inside advanceToTick, right after this.nowTick++
Stepped(c) == [c EXCEPT !.wheel.nowTick = @ + 1]

\* the overflow slots within the horizon at tick n, in list order
WithinHorizon(c, n) ==
    SelectSeq(WheelList(c, BUCKET_OVERFLOW),
              LAMBDA id : c.store.expiresTick[id] - n <= HorizonTicks)

\* the slots the drain of a tick step moves: the first budgetPerTick of them
Drained(c, n) ==
    SubSeq(WithinHorizon(c, n), 1, Min(c.opts.budgetPerTick, Len(WithinHorizon(c, n))))

\* (C31) The overflow drain of a tick step unlinks every overflow entry it
\* examines with expiresTick - nowTick <= horizonTicks and either passes it
\* to onExpire (expiresTick <= nowTick) or links it into bucket
\* expiresTick & wheelMask; every examined entry further away stays in the
\* overflow list in its position; only moved or expired entries count
\* against the budget.
C31_DrainMovesWithinHorizon ==
    LET c0 == Stepped(Cur)
        n == c0.wheel.nowTick
        d == DrainOverflowWithinHorizon(c0, 0)
        moved == Range(Drained(c0, n))
    IN Ok(d.c) =>
          /\ d.processed = Cardinality(moved)
          /\ d.c.out.work = d.processed
          /\ WheelList(d.c, BUCKET_OVERFLOW) =
                SelectSeq(WheelList(Cur, BUCKET_OVERFLOW), LAMBDA id : id \notin moved)
          /\ \A id \in moved :
                IF store.expiresTick[id] <= n
                THEN /\ d.c.store.wheelBucket[id] = BUCKET_NONE
                     /\ \E e \in Expirations(d.c) : e.id = id /\ e.phase = "overflow"
                ELSE /\ d.c.store.wheelBucket[id] = BucketOf(store.expiresTick[id])
                     /\ id \in Range(WheelList(d.c, BucketOf(store.expiresTick[id])))
                     /\ id \notin ExpiredIds(d.c)
          /\ ExpiredIds(d.c) \subseteq moved
          /\ \A id \in Ids \ moved :
                /\ d.c.store.wheelBucket[id] = store.wheelBucket[id]
                /\ d.c.store.expiresTick[id] = store.expiresTick[id]
          /\ \A b \in WheelLists : WellLinked(d.c, WheelList(d.c, b))

\* C31's case: the head of the overflow list is beyond the horizon and
\* stays, the slot behind it is within the horizon and moves to its bucket
C31_Witness ==
    LET list == WheelList(Cur, BUCKET_OVERFLOW)
        d == DrainOverflowWithinHorizon(Stepped(Cur), 0)
    IN /\ Len(list) = 2
       /\ WheelList(d.c, BUCKET_OVERFLOW) = <<list[1]>>
       /\ d.processed = 1
       /\ d.c.store.wheelBucket[list[2]] = BucketOf(store.expiresTick[list[2]])

\* C31's other case: the drain finds an entry due and expires it
DrainExpires ==
    \E e \in Expirations(DrainOverflowWithinHorizon(Stepped(Cur), 0).c) :
        e.phase = "overflow"

\* a comes before b in list
Before(list, a, b) ==
    \E i \in 1 .. Len(list), j \in 1 .. Len(list) : i < j /\ list[i] = a /\ list[j] = b

\* the order of the onExpire calls e, f, made in this order by one advance
\* from c: ticks in order, the drain of a tick before its bucket, a list
\* from head to tail (slots the drain put into the bucket during the
\* advance are at its head, the last drained first)
InOrder(c, e, f) ==
    /\ e.nowTick <= f.nowTick
    /\ e.nowTick = f.nowTick =>
          /\ ~(e.phase = "bucket" /\ f.phase = "overflow")
          /\ (e.phase = "overflow" /\ f.phase = "overflow") =>
                Before(WheelList(c, BUCKET_OVERFLOW), e.id, f.id)
          /\ (e.phase = "bucket" /\ f.phase = "bucket") =>
                LET list == WheelList(c, BucketOf(e.nowTick))
                    overflow == WheelList(c, BUCKET_OVERFLOW)
                IN /\ (e.id \in Range(list) /\ f.id \in Range(list)) => Before(list, e.id, f.id)
                   /\ ~(e.id \in Range(list) /\ f.id \in Range(overflow))
                   /\ (e.id \in Range(overflow) /\ f.id \in Range(overflow)) =>
                         Before(overflow, f.id, e.id)

\* every two onExpire calls of any advance from the current state are in
\* order
EmittedInOrder ==
    \A t \in TargetTicks :
        LET r == AdvanceToTick(Harnessed(Cur), t)
        IN \A i \in 1 .. Len(r.out.expired), j \in 1 .. Len(r.out.expired) :
              i < j => InOrder(Cur, r.out.expired[i], r.out.expired[j])

\* the onExpire calls of advanceToTick(t) after schedule(a, expTick) and
\* then schedule(b, expTick)
AfterTwoSchedules(a, b, expTick, t) ==
    AdvanceToTick(Schedule(Schedule(Harnessed(Cur), a, expTick), b, expTick), t).out.expired

\* (C32) Within one advance all onExpire calls of tick step N precede those
\* of tick step N + 1; within one tick step the calls of the overflow
\* drain precede those of the bucket; within one list the entries are
\* emitted from head to tail, the reverse of the order in which they were
\* scheduled (LIFO).
C32_EmissionOrderLifo ==
    /\ EmittedInOrder
    /\ \A t \in TargetTicks, a \in Ids, b \in Ids, d \in HarnessDeltas :
          a # b =>
             LET e == AfterTwoSchedules(a, b, wheel.nowTick + d, t)
             IN \A i \in 1 .. Len(e), j \in 1 .. Len(e) :
                   (e[i].id = a /\ e[j].id = b) => j < i

\* (C32, as the code has it) The same order of tick steps, of drain and
\* bucket, and of a list from head to tail; that order is the reverse of
\* the order in which the entries were linked into the list: entries
\* scheduled straight into a bucket, and entries expired from the overflow
\* list, are emitted last scheduled first, but entries that one drain
\* moved from the overflow list into a bucket are emitted from that bucket
\* first scheduled first.
C32_EmissionOrder ==
    /\ EmittedInOrder
    /\ \A t \in TargetTicks, a \in Ids, b \in Ids, d \in HarnessDeltas :
          a # b =>
             LET e == AfterTwoSchedules(a, b, wheel.nowTick + d, t)
             IN \A i \in 1 .. Len(e), j \in 1 .. Len(e) :
                   (e[i].id = a /\ e[j].id = b) =>
                      IF d > HorizonTicks /\ e[i].phase = "bucket" /\ e[j].phase = "bucket"
                      THEN i < j
                      ELSE j < i

\* C32's case: two slots are scheduled beyond the horizon, one drain moves
\* both into a bucket, and the advance expires the first scheduled first
C32_Witness ==
    \E t \in TargetTicks, a \in Ids, b \in Ids :
        /\ a # b
        /\ Len(AfterTwoSchedules(a, b, wheel.nowTick + HorizonTicks + 1, t)) = 2
        /\ AfterTwoSchedules(a, b, wheel.nowTick + HorizonTicks + 1, t)[1].id = a
        /\ AfterTwoSchedules(a, b, wheel.nowTick + HorizonTicks + 1, t)[2].id = b
        /\ AfterTwoSchedules(a, b, wheel.nowTick + HorizonTicks + 1, t)[2].phase = "bucket"

\* C32's other cases: one advance expires a slot from the overflow drain
\* and then a slot from the bucket of the same tick
DrainThenBucket ==
    \E t \in TargetTicks :
        \E i \in 1 .. Len(AdvanceToTick(Harnessed(Cur), t).out.expired) - 1 :
           /\ AdvanceToTick(Harnessed(Cur), t).out.expired[i].phase = "overflow"
           /\ AdvanceToTick(Harnessed(Cur), t).out.expired[i + 1].phase = "bucket"
           /\ AdvanceToTick(Harnessed(Cur), t).out.expired[i + 1].nowTick =
                 AdvanceToTick(Harnessed(Cur), t).out.expired[i].nowTick

\* two slots of one bucket expire in one tick step; slots expire in two
\* tick steps of one advance
TwoOfOneBucket ==
    \E t \in TargetTicks :
        LET e == AdvanceToTick(Harnessed(Cur), t).out.expired
        IN Len(e) = 2 /\ e[1].phase = "bucket" /\ e[2].phase = "bucket"
           /\ e[1].nowTick = e[2].nowTick

TwoTickSteps ==
    \E t \in TargetTicks :
        LET e == AdvanceToTick(Harnessed(Cur), t).out.expired
        IN Len(e) = 2 /\ e[1].nowTick < e[2].nowTick

\* slot id of c is in the neutral state
Neutral(c, id) ==
    /\ c.store.keyRef[id] = Undefined
    /\ c.store.valRef[id] = Undefined
    /\ c.store.expiresTick[id] = 0
    /\ c.store.ttlMs[id] = 0
    /\ c.store.wheelNext[id] = NIL /\ c.store.wheelPrev[id] = NIL
    /\ c.store.lruNext[id] = NIL /\ c.store.lruPrev[id] = NIL
    /\ c.store.wheelBucket[id] = BUCKET_NONE

\* the columns of slot id
Columns(c, id) ==
    <<c.store.keyRef[id], c.store.valRef[id], c.store.expiresTick[id], c.store.ttlMs[id],
      c.store.wheelNext[id], c.store.wheelPrev[id], c.store.lruNext[id],
      c.store.lruPrev[id], c.store.wheelBucket[id]>>

\* (C33) allocId returns the most recently freed id when the free list is
\* not empty (LIFO reuse); otherwise the next fresh id, sizeAllocated
\* before the call, when sizeAllocated < maxEntries; otherwise NIL with the
\* arena unchanged; the slot returned is in the neutral state, so nothing
\* of a previous occupant survives reuse.
C33_AllocIdReuse ==
    LET a == AllocId(Cur)
        n == Len(store.freeList)
    IN /\ Ok(a.c)
       /\ IF n > 0
          THEN /\ a.id = store.freeList[n]
               /\ a.c.store.freeList = SubSeq(store.freeList, 1, n - 1)
               /\ a.c.store.sizeAllocated = store.sizeAllocated
          ELSE IF store.sizeAllocated < opts.maxEntries
          THEN /\ a.id = store.sizeAllocated
               /\ a.c.store.sizeAllocated = store.sizeAllocated + 1
               /\ a.c.store.freeList = << >>
          ELSE a.id = NIL /\ a.c = Cur
       /\ a.id # NIL =>
             /\ Neutral(a.c, a.id)
             /\ \A o \in Ids \ {a.id} : Columns(a.c, o) = Columns(Cur, o)
             /\ a.c.lru = lru /\ a.c.wheel = wheel /\ a.c.keyIndex = keyIndex
       /\ \A id \in LiveSlots(Cur) :
             LET f == FreeId(Cur, id)
             IN Ok(f) => /\ AllocId(f).id = id
                         /\ Neutral(AllocId(f).c, id)
                         /\ AllocId(f).c.store.freeList = store.freeList

\* C33's case: two ids are free, freed at different times, and allocId
\* returns the one freed last
C33_Witness ==
    /\ Len(store.freeList) = 2
    /\ store.freeList[1] # store.freeList[2]
    /\ AllocId(Cur).id = store.freeList[2]
    /\ LiveSlots(Cur) # {}

\* C33's other cases: a fresh id is handed out; the arena is exhausted
FreshId ==
    /\ store.freeList = << >> /\ store.sizeAllocated \in 1 .. (opts.maxEntries - 1)
    /\ AllocId(Cur).id = store.sizeAllocated

Exhausted ==
    /\ store.freeList = << >> /\ store.sizeAllocated = opts.maxEntries
    /\ AllocId(Cur).id = NIL

\* the TTLs of at least one tick
TickTtls == {ttl \in ValidTtls : ttl.ms >= TickMs}

\* r has the entry of key that c0 has, updated in place to value and ttl,
\* and the other entries of c0 as they were
EntryUpdated(c0, r, key, value, ttl) ==
    LET id == IndexGet(c0, key)
        expireTick == TickerNowTick(c0) + (ttl.ms \div TickMs)
    IN /\ Ok(r)
       /\ r.keyIndex = c0.keyIndex
       /\ Size(r) = Size(c0)
       /\ r.store.keyRef[id] = key
       /\ r.store.valRef[id] = value
       /\ r.store.ttlMs[id] = ttl.ms
       /\ r.store.expiresTick[id] = expireTick
       /\ r.store.wheelBucket[id] # BUCKET_NONE
       /\ LruOrder(r) = <<id>> \o Without(LruOrder(c0), id)
       /\ \A o \in Ids \ {id} :
             /\ r.store.keyRef[o] = c0.store.keyRef[o]
             /\ r.store.valRef[o] = c0.store.valRef[o]
             /\ r.store.ttlMs[o] = c0.store.ttlMs[o]
             /\ r.store.expiresTick[o] = c0.store.expiresTick[o]

\* r is c0 with the entry of key updated in place to value and ttl
UpdatedInPlace(c0, r, key, value, ttl) ==
    LET id == IndexGet(c0, key)
        target == TargetList(c0, TickerNowTick(c0) + (ttl.ms \div TickMs))
    IN /\ EntryUpdated(c0, r, key, value, ttl)
       /\ r.store.wheelBucket[id] = target
       /\ WheelList(r, target)[1] = id
       /\ \A o \in Ids \ {id} : r.store.wheelBucket[o] = c0.store.wheelBucket[o]
       /\ \A b \in WheelLists :
             Without(WheelList(r, b), id) = Without(WheelList(c0, b), id)
       /\ r.store.freeList = c0.store.freeList
       /\ r.store.sizeAllocated = c0.store.sizeAllocated
       /\ r.wheel.nowTick = c0.wheel.nowTick
       /\ \A i \in 1 .. Len(r.out.disposed) : r.out.disposed[i].reason \in {"ttl", "set"}

ExpiredLiveAndDue(r) == \A e \in Expirations(r) : e.live /\ e.due

\* no advance from c expires slot id
NeverExpired(c, id) ==
    \A t \in TargetTicks : id \notin ExpiredIds(AdvanceToTick(c, t))

\* (C35) Every slot linked in a wheel bucket or in the overflow list is
\* live; each removal path unlinks the slot from the wheel before it is
\* freed, so whatever user operations and advancer ticks came before, the
\* wheel never passes a free slot to onExpire, never expires an entry that
\* was already removed, and never expires a slot reused for a new key at
\* the old entry's expiry tick.
C35_WheelHoldsLiveSlotsOnly ==
    /\ WheelSlots(Cur) \subseteq LiveSlots(Cur)
    /\ \A id \in Ids \ LiveSlots(Cur) :
          /\ store.wheelBucket[id] = BUCKET_NONE
          /\ store.wheelNext[id] = NIL /\ store.wheelPrev[id] = NIL
    /\ \A t \in TargetTicks : ExpiredLiveAndDue(AdvanceToTick(Cur, t))
    /\ \A key \in IndexKeys(keyIndex) :
          LET id == IndexGet(Cur, key)
              r == Delete(Cur, key)
          IN Ok(r) =>
                /\ ExpiredLiveAndDue(r)
                /\ id \notin WheelSlots(r)
                /\ NeverExpired(After(r), id)
                /\ \A k2 \in inputs.keys, ttl \in inputs.ttls :
                      LET r2 == Set(After(r), k2, "v1", ttl)
                      IN (Ok(r2) /\ IndexGet(r2, k2) = id) =>
                            \A t \in TargetTicks :
                               id \in ExpiredIds(AdvanceToTick(After(r2), t)) =>
                                  /\ r2.store.expiresTick[id] <= AdvanceToTick(After(r2), t).wheel.nowTick
                                  /\ ExpiredLiveAndDue(AdvanceToTick(After(r2), t))

\* C35's case: an entry due at the next tick is deleted and its slot is
\* reused for a key that expires later; the advance to the old expiry tick
\* expires nothing
C35_Witness ==
    \E key \in IndexKeys(keyIndex), k2 \in inputs.keys :
        LET id == IndexGet(Cur, key)
            r2 == Set(After(Delete(Cur, key)), k2, "v1", OverflowTtl)
        IN /\ k2 # key
           /\ opts.ttlAutopurge
           /\ store.wheelBucket[id] \in Buckets
           /\ store.expiresTick[id] = wheel.nowTick + 1
           /\ Ok(r2) /\ IndexGet(r2, k2) = id
           /\ r2.store.wheelBucket[id] = BUCKET_OVERFLOW
           /\ Ok(AdvanceToTick(After(r2), store.expiresTick[id]))
           /\ ExpiredIds(AdvanceToTick(After(r2), store.expiresTick[id])) = {}
           /\ AdvanceToTick(After(r2), store.expiresTick[id]).wheel.nowTick = store.expiresTick[id]

\* slot id is linked in the wheel with an expiry tick
Scheduled(c, id) ==
    /\ c.store.wheelBucket[id] \in Buckets \cup {BUCKET_OVERFLOW}
    /\ id \in WheelSlots(c)
    /\ c.store.expiresTick[id] > 0

\* (C36) Between public operations every live entry is scheduled: its
\* wheelBucket is a bucket or the overflow list, never NONE, and its
\* expiresTick is greater than 0.
C36_LiveEntriesScheduled ==
    \A id \in LiveSlots(Cur) : Scheduled(Cur, id)

\* every slot of every bucket list is in the bucket of its own expiry tick
InOwnBuckets(c) ==
    \A b \in Buckets : \A id \in BucketSlots(c, b) :
        /\ b = c.store.expiresTick[id] % WheelSize
        /\ c.store.wheelBucket[id] = b

\* (C37) In every reachable state every slot linked in wheel bucket b
\* satisfies b = expiresTick & wheelMask, so the guardrail branch of
\* processBucket that relinks a slot into another bucket is never taken.
C37_SlotsInOwnBuckets ==
    /\ InOwnBuckets(Cur)
    /\ \A t \in TargetTicks :
          LET r == AdvanceToTick(Cur, t)
          IN ~r.out.relinked /\ InOwnBuckets(r)

\* C37's case: a slot drained from the overflow list lands in the bucket
\* of the current tick, a wheel turn before it is due; processBucket walks
\* that bucket in the same tick step and leaves the slot where it is
C37_Witness ==
    \E t \in TargetTicks, id \in Ids :
        LET r == AdvanceToTick(Cur, t)
        IN /\ Ok(r) /\ r.out.caughtUp
           /\ store.wheelBucket[id] = BUCKET_OVERFLOW
           /\ r.store.wheelBucket[id] = BucketOf(r.wheel.nowTick)
           /\ id \in BucketSlots(r, BucketOf(r.wheel.nowTick))
           /\ r.wheel.nowTick \in BucketTicks(r)
           /\ r.store.expiresTick[id] = r.wheel.nowTick + WheelSize
           /\ ~r.out.relinked

\* the call that left r moved nowTick forward or not at all, and not past
\* the tick of the time source
NowTickKept(c, r) ==
    /\ r.wheel.nowTick >= c.wheel.nowTick
    /\ r.wheel.nowTick <= TickerNowTick(r)

\* no public call and no advance from c takes nowTick back or past the clock
NowTickMonotone(c) ==
    /\ c.wheel.nowTick <= TickerNowTick(c)
    /\ \A t \in TargetTicks : AdvanceToTick(c, t).wheel.nowTick >= c.wheel.nowTick
    /\ NowTickKept(c, AdvanceWheel(c))
    /\ NowTickKept(c, Clear(c))
    /\ \A key \in inputs.keys :
          /\ NowTickKept(c, Get(c, key))
          /\ NowTickKept(c, Has(c, key))
          /\ NowTickKept(c, Delete(c, key))
          /\ \A ttl \in inputs.ttls : NowTickKept(c, Set(c, key, "v1", ttl))

\* schedule accepts every expiry tick that is d >= 1 ticks after the clock's
ClockTicksAhead(c) ==
    \A id \in LiveSlots(c), d \in 1 .. (HorizonTicks + 1) :
        /\ TickerNowTick(c) + d > c.wheel.nowTick
        /\ Ok(Schedule(c, id, TickerNowTick(c) + d))

\* advanceToTick(t) from c changed nothing and returned true
NothingAdvanced(c, t) ==
    LET r == AdvanceToTick(c, t)
    IN Ok(r) /\ r.out.caughtUp /\ State(r) = State(c) /\ Len(r.out.expired) = 0

\* the original statement of C38: the wheel's nowTick never decreases (an
\* advance to a target below nowTick changes nothing and returns true) and
\* never exceeds the clock's tick, so every expiry tick clock tick + d with
\* d >= 1 is greater than nowTick
C38_NowTickMonotoneAnyTarget ==
    /\ NowTickMonotone(Cur)
    /\ ClockTicksAhead(Cur)
    /\ \A t \in TargetTicks : t < wheel.nowTick => NothingAdvanced(Cur, t)

\* (C38) The wheel's nowTick never decreases and, with a monotonic clock,
\* never exceeds the clock's current tick, so every expiry tick the
\* coordinator computes as clock tick + d with d >= 1 is greater than the
\* wheel's nowTick. An advance to a target below nowTick changes nothing
\* and returns true when no target is pending; with a pending target it
\* works towards the pending target, and nowTick ends between its old
\* value and that target.
C38_NowTickMonotone ==
    /\ NowTickMonotone(Cur)
    /\ ClockTicksAhead(Cur)
    /\ \A t \in TargetTicks :
          t < wheel.nowTick =>
             IF wheel.pendingTargetTick = NoPending
             THEN NothingAdvanced(Cur, t)
             ELSE /\ AdvanceToTick(Cur, t).wheel.nowTick <= Max(wheel.nowTick, wheel.pendingTargetTick)
                  /\ State(AdvanceToTick(Cur, t)) = State(AdvanceToTick(Cur, wheel.pendingTargetTick))

\* C38's case: the wheel has advanced, a target is pending ahead of it
\* and an advance to a target behind nowTick moves it forward
C38_Witness ==
    /\ wheel.nowTick >= 1
    /\ wheel.pendingTargetTick > wheel.nowTick
    /\ AdvanceToTick(Cur, 0).wheel.nowTick > wheel.nowTick
    /\ NothingAdvanced(State([Cur EXCEPT !.wheel.pendingTargetTick = NoPending]), 0)

\* the last tick in which the callers of the long runs set and slide
QuietTick == 1

\* the ticks the time source runs through in the long runs: the last set,
\* the longest TTL, and a wheel turn for every entry a budget of 1 leaves
\* behind
LiveTicks == QuietTick + (WheelSize + 1) + MaxEntries * WheelSize

\* the callers have stopped setting entries and sliding them
Quiet == TickerNowTick(Cur) > QuietTick

\* caches with the background advancer, of every budget, whose callers stop
\* setting and sliding after QuietTick while the time source runs on
InitLive ==
    Constructed([maxEntries : {MaxEntries}, ttlAutopurge : {TRUE},
                 updateTTLOnGet : BOOLEAN, budgetPerTick : 1 .. MaxBudget],
                {[keys |-> Keys, values |-> {"v1"}, ttls |-> {OneTickTtl, OverflowTtl},
                  maxTick |-> LiveTicks]})

SetBeforeQuiet == ~Quiet /\ DoSet

GetNotSlidingWhenQuiet == (~opts.updateTTLOnGet \/ ~Quiet) /\ DoGet

NextLive ==
    \/ SetBeforeQuiet
    \/ GetNotSlidingWhenQuiet
    \/ DoHas
    \/ DoDelete
    \/ DoClear
    \/ AdvancerTick
    \/ ClockAdvance

\* a call of advanceWheel by setInterval would change the cache: this is
\* ENABLED <<AdvancerTick>>_vars, the one successor of AdvancerTick compared
\* with the state it starts from
AdvancerEnabled ==
    /\ opts.ttlAutopurge
    /\ \/ State(AdvanceWheel(Cur)) # State(Cur)
       \/ Kept(AdvanceWheel(Cur).keyIndex) # recency

\* the time source keeps moving and setInterval keeps calling advanceWheel:
\* weak fairness of ClockAdvance and of AdvancerTick, the latter with its
\* enabling condition written out
SpecLive ==
    /\ InitLive /\ [][NextLive]_vars
    /\ WF_vars(ClockAdvance)
    /\ (<>[]AdvancerEnabled => []<><<AdvancerTick>>_vars)

\* no entry in the key index, no live slot, nothing linked in the wheel
CacheEmpty ==
    /\ Len(keyIndex) = 0
    /\ LiveSlots(Cur) = {}
    /\ WheelSlots(Cur) = {}

PlacedFromNowTick(r, id, expTick) ==
    /\ r.store.expiresTick[id] = expTick
    /\ expTick > r.wheel.nowTick
    /\ IF expTick - r.wheel.nowTick > HorizonTicks
       THEN /\ r.store.wheelBucket[id] = BUCKET_OVERFLOW
            /\ id \in OverflowSlots(r)
            /\ \A b \in Buckets : id \notin BucketSlots(r, b)
       ELSE /\ r.store.wheelBucket[id] = BucketOf(expTick)
            /\ id \in BucketSlots(r, BucketOf(expTick))
            /\ id \notin OverflowSlots(r)
            /\ \A b \in Buckets \ {BucketOf(expTick)} : id \notin BucketSlots(r, b)

\* the targets of the advances that follow a set
LateTicks == 0 .. (inputs.maxTick + HorizonTicks + 1)

\* the onExpire calls for slot id in the advance that left a
ExpiriesOf(a, id) == {e \in Expirations(a) : e.id = id}

\* no advance from r expires slot id before its expiry tick, and an advance
\* that never runs out of budget and takes nowTick to the expiry tick or
\* past it expires the slot in the step of that tick
ReachedAtItsTick(r, id) ==
    \A t \in LateTicks :
        LET a == AdvanceToTick(After(r), t)
            exp == r.store.expiresTick[id]
        IN /\ Ok(a)
           /\ \A e \in ExpiriesOf(a, id) : e.nowTick >= exp /\ e.exp = exp /\ e.live
           /\ (a.out.caughtUp /\ a.wheel.nowTick >= exp) =>
                 \E e \in ExpiriesOf(a, id) : e.nowTick = exp
           /\ a.wheel.nowTick < exp =>
                 /\ id \in WheelSlots(a)
                 /\ InOwnBuckets(a)

\* the wheel lags behind the time source
Lagging(c) == c.wheel.nowTick < TickerNowTick(c)

\* (C40) User operations interleaved at any point between advancer calls,
\* also while the wheel lags behind the clock and while a budget-interrupted
\* advance has a pending target, preserve the wheel structure: an entry
\* scheduled by a set or by a sliding get is placed in the overflow list or
\* in the bucket of its expiry tick, the distance measured from the lagging
\* nowTick; it is not expired before its expiry tick, and the wheel reaches
\* it in the step in which nowTick arrives at its expiry tick when the
\* budget suffices.
C40_ScheduledWhileLagging ==
    \A key \in inputs.keys :
        /\ \A ttl \in inputs.ttls \cap TickTtls :
              LET r == Set(Cur, key, "v1", ttl)
                  id == IndexGet(r, key)
              IN /\ Ok(r)
                 /\ id # NIL
                 /\ PlacedFromNowTick(r, id, TickerNowTick(Cur) + (ttl.ms \div TickMs))
                 /\ InOwnBuckets(r)
                 /\ WheelSlots(r) \subseteq LiveSlots(r)
                 /\ ReachedAtItsTick(r, id)
        /\ LET g == Get(Cur, key)
               id == IndexGet(g, key)
           IN (opts.updateTTLOnGet /\ Ok(g) /\ g.out.ret # Undefined) =>
                 /\ id # NIL
                 /\ PlacedFromNowTick(g, id, TickerNowTick(Cur) + (g.store.ttlMs[id] \div TickMs))
                 /\ InOwnBuckets(g)
                 /\ ReachedAtItsTick(g, id)

\* C40's case: the advancer's last call ran out of budget, the wheel lags
\* with a target pending, and a set schedules an entry within the horizon
\* of the lagging nowTick which the advance that follows expires at its tick
C40_Witness ==
    /\ opts.ttlAutopurge
    /\ Lagging(Cur)
    /\ wheel.pendingTargetTick # NoPending
    /\ \E key \in inputs.keys :
          LET r == Set(Cur, key, "v1", OneTickTtl)
              id == IndexGet(r, key)
              a == AdvanceToTick(After(r), TickerNowTick(Cur) + 1)
          IN /\ Ok(r) /\ id # NIL
             /\ r.wheel.nowTick = wheel.nowTick
             /\ r.store.wheelBucket[id] \in Buckets
             /\ a.out.caughtUp
             /\ \E e \in ExpiriesOf(a, id) : e.nowTick = r.store.expiresTick[id]

=============================================================================
